---------------------------- MODULE Spec2Model ----------------------------
(***************************************************************************)
(* State fusion engine of the game state agent:                            *)
(* GameState.apply_update (src/game_state_agent/models.py) merges one      *)
(* StateUpdate produced by the screenshot analyzer into the tracked        *)
(* GameState and reports whether anything changed.                         *)
(***************************************************************************)
EXTENDS Integers, Sequences, FiniteSets, TLC

(***************************************************************************)
(* Optional[T]: Python's None is the empty tuple, a present value v is the *)
(* one-element tuple <<v>>, so that None, "" and [] stay three different   *)
(* values.                                                                 *)
(***************************************************************************)
None == <<>>

Some(v) == <<v>>

Val(o) == o[1]

\* Python truthiness of an Optional[str]: neither None nor "".
TruthyStr(o) == o # None /\ Val(o) # ""

\* Python truthiness of an Optional[list]: neither None nor [].
TruthyList(o) == o # None /\ Len(Val(o)) > 0

\* x in list
InList(x, list) == \E i \in DOMAIN list : list[i] = x

(***************************************************************************)
(* Enumerations.                                                           *)
(***************************************************************************)
NONE == "none"

PARTY_DEFEATED == "party_defeated"

BOSS_DEFEATED == "boss_defeated"

FLAG_DISCOVERED == "flag_discovered"

GameEvent == {NONE, PARTY_DEFEATED, BOSS_DEFEATED, FLAG_DISCOVERED}

NOOP == "noop"

LOCATION == "location"

INVENTORY == "inventory"

BOSS_ENCOUNTER == "boss_encounter"

GAME_EVENT == "game_event"

FLAG_REST == "flag_rest"

CAMP_REST == "camp_rest"

STATS == "stats"

MULTIPLE == "multiple"

UpdateType == {NOOP, LOCATION, INVENTORY, BOSS_ENCOUNTER, GAME_EVENT,
               FLAG_REST, CAMP_REST, STATS, MULTIPLE}

(***************************************************************************)
(* Payload records.  Percentages (floats in the source) are modelled by    *)
(* whole numbers.                                                          *)
(***************************************************************************)
InventoryItem(n, q) == [name |-> n, quantity |-> q]

Picto(n, c, m) == [name |-> n, character |-> c, mastered |-> m]

BossState(n, hp, axon) == [name |-> n, hp_percentage |-> hp, is_axon |-> axon]

CharacterStats(n, hp, lvl) ==
    [name |-> n, hp_percentage |-> hp, level |-> lvl, vitality |-> None,
     might |-> None, agility |-> None, defense |-> None, luck |-> None]

PartyStats(chars, gauge) == [active_characters |-> chars, gradient_gauge |-> gauge]

\* GameState(): every field at its declared default.
GameState ==
    [player_location  |-> "Unknown",
     inventory        |-> <<>>,
     pictos           |-> <<>>,
     current_boss     |-> None,
     last_flag        |-> None,
     at_camp          |-> FALSE,
     party_defeats    |-> 0,
     bosses_defeated  |-> <<>>,
     axons_defeated   |-> <<>>,
     flags_discovered |-> <<>>,
     active_party     |-> <<"Gustave", "Maelle", "Lune">>,
     character_stats  |-> [n \in {} |-> None],
     gradient_gauge   |-> 0]

(***************************************************************************)
(* Bounds of the exploration.                                              *)
(***************************************************************************)
\* party_defeated updates are applied while the counter stays within this.
MaxDefeats == 2

(***************************************************************************)
(* The observation streams explored.  A run draws every StateUpdate from   *)
(* one stream; a stream populates the payload fields of a few categories   *)
(* with several values each (None, empty and non-empty ones) and leaves    *)
(* the others None.  update_type ranges over all of UpdateType in every    *)
(* stream, so payloads that do not fit the declared type occur in each.    *)
(***************************************************************************)
Scenarios == {"combat", "waypoint", "snapshot", "stats"}

NewLocations(s) ==
    CASE s = "snapshot" -> {None, Some(""), Some("Unknown"), Some("Lumiere")}
      [] s = "waypoint" -> {None, Some(""), Some("Lumiere")}
      [] OTHER          -> {None}

Inventories(s) ==
    IF s = "snapshot"
    THEN {None, Some(<<>>),
          Some(<<InventoryItem("Chroma Catalyst", 2)>>),
          Some(<<InventoryItem("Healing Tint", 1)>>)}
    ELSE {None}

PictoLists(s) ==
    IF s = "snapshot"
    THEN {None, Some(<<>>), Some(<<Picto("Dodger", Some("Maelle"), FALSE)>>)}
    ELSE {None}

GameEvents(s) ==
    CASE s = "combat"   -> {None} \cup {Some(e) : e \in GameEvent}
      [] s = "waypoint" -> {None, Some(FLAG_DISCOVERED)}
      [] OTHER          -> {None}

Bosses(s) ==
    CASE s = "combat"   -> {None,
                            Some(BossState("Goblu", 50, TRUE)),
                            Some(BossState("Goblu", 100, FALSE)),
                            Some(BossState("Lampmaster", 50, FALSE))}
      [] s = "waypoint" -> {None, Some(BossState("Goblu", 50, TRUE))}
      [] OTHER          -> {None}

FlagNames(s) ==
    IF s = "waypoint"
    THEN {None, Some(""), Some("Spring Meadows"), Some("Flying Waters")}
    ELSE {None}

AtCamps(s) ==
    IF s = "waypoint" THEN {None, Some(TRUE), Some(FALSE)} ELSE {None}

CharacterStatLists(s) ==
    IF s = "stats"
    THEN {None, Some(<<>>),
          Some(<<CharacterStats("Gustave", Some(10), None)>>),
          Some(<<CharacterStats("Gustave", Some(50), Some(5)),
                 CharacterStats("Maelle", Some(80), None)>>),
          Some(<<CharacterStats("Maelle", None, Some(7)),
                 CharacterStats("Maelle", Some(80), None)>>)}
    ELSE {None}

PartyStatsValues(s) ==
    IF s = "stats"
    THEN {None} \cup
         {Some(PartyStats(c, g)) :
             c \in {None, Some(<<>>), Some(<<"Maelle", "Verso">>)},
             g \in {None, Some(0), Some(50)}}
    ELSE {None}

\* The StateUpdate values of stream s.  screen_type, reasoning and
\* uncertainty_notes are never read by apply_update and are left out.
StateUpdates(s) ==
    [update_type     : UpdateType,
     new_location    : NewLocations(s),
     inventory_items : Inventories(s),
     pictos          : PictoLists(s),
     game_event      : GameEvents(s),
     boss            : Bosses(s),
     flag_name       : FlagNames(s),
     at_camp         : AtCamps(s),
     character_stats : CharacterStatLists(s),
     party_stats     : PartyStatsValues(s)]

\* A StateUpdate with every optional field at its default.
StateUpdate(type) ==
    [update_type     |-> type,
     new_location    |-> None,
     inventory_items |-> None,
     pictos          |-> None,
     game_event      |-> None,
     boss            |-> None,
     flag_name       |-> None,
     at_camp         |-> None,
     character_stats |-> None,
     party_stats     |-> None]

(***************************************************************************)
(* GameState.apply_update.  A rule works on a frame                        *)
(* [self |-> the GameState so far, changed |-> the local flag] and         *)
(* returns the frame after its block of the method.                        *)
(***************************************************************************)

Triggers_ungated(update, category) == update.update_type # NOOP

\* update.update_type in (UpdateType.<category>, UpdateType.MULTIPLE)
Triggers(update, category) == update.update_type \in {category, MULTIPLE}

AppendAlways(list, x) == Append(list, x)

Prepend(list, x) == IF InList(x, list) THEN list ELSE <<x>> \o list

\* if x not in list: list.append(x)
AppendIfAbsent(list, x) == IF InList(x, list) THEN list ELSE Append(list, x)

DictSet_merge(d, k, v) ==
    [x \in (DOMAIN d) \cup {k} |->
        IF x # k THEN d[x]
        ELSE IF k \in DOMAIN d
             THEN [v EXCEPT !.hp_percentage = IF @ = None THEN d[k].hp_percentage ELSE @,
                            !.level = IF @ = None THEN d[k].level ELSE @]
             ELSE v]

\* d[k] = v
DictSet(d, k, v) == [x \in (DOMAIN d) \cup {k} |-> IF x = k THEN v ELSE d[x]]

LocationRule_silent(st, update) ==
    IF TruthyStr(update.new_location)
       /\ Val(update.new_location) # st.self.player_location
    THEN [self    |-> [st.self EXCEPT !.player_location = Val(update.new_location)],
          changed |-> st.changed]
    ELSE st

LocationRule_always(st, update) ==
    IF TruthyStr(update.new_location)
    THEN [self    |-> [st.self EXCEPT !.player_location = Val(update.new_location)],
          changed |-> TRUE]
    ELSE st

\* Location updates
LocationRule(st, update) ==
    IF TruthyStr(update.new_location)
       /\ Val(update.new_location) # st.self.player_location
    THEN [self    |-> [st.self EXCEPT !.player_location = Val(update.new_location)],
          changed |-> TRUE]
    ELSE st

InventoryRule_extend(st, update) ==
    LET s1 == IF update.inventory_items # None
              THEN [self    |-> [st.self EXCEPT
                                    !.inventory = @ \o Val(update.inventory_items)],
                    changed |-> TRUE]
              ELSE st
    IN  IF update.pictos # None
        THEN [self    |-> [s1.self EXCEPT !.pictos = Val(update.pictos)],
              changed |-> TRUE]
        ELSE s1

\* Inventory updates
InventoryRule(st, update) ==
    LET s1 == IF update.inventory_items # None
              THEN [self    |-> [st.self EXCEPT
                                    !.inventory = Val(update.inventory_items)],
                    changed |-> TRUE]
              ELSE st
    IN  IF update.pictos # None
        THEN [self    |-> [s1.self EXCEPT !.pictos = Val(update.pictos)],
              changed |-> TRUE]
        ELSE s1

BossEncounterRule_if_differs(st, update) ==
    IF update.boss # None /\ update.boss # st.self.current_boss
    THEN [self |-> [st.self EXCEPT !.current_boss = update.boss], changed |-> TRUE]
    ELSE st

\* Boss encounter updates
BossEncounterRule(st, update) ==
    IF update.boss # None
    THEN [self |-> [st.self EXCEPT !.current_boss = update.boss], changed |-> TRUE]
    ELSE st

\* PARTY_DEFEATED branch
PartyDefeatedRule_twice(st) ==
    [self    |-> [st.self EXCEPT !.party_defeats = @ + 2, !.current_boss = None],
     changed |-> TRUE]

PartyDefeatedRule(st) ==
    [self    |-> [st.self EXCEPT !.party_defeats = @ + 1, !.current_boss = None],
     changed |-> TRUE]

BossDefeatedRule_all_axons(st) ==
    [self    |-> IF st.self.current_boss # None
                 THEN LET boss == Val(st.self.current_boss)
                      IN  [st.self EXCEPT
                              !.bosses_defeated = AppendIfAbsent(@, boss.name),
                              !.axons_defeated  = AppendIfAbsent(@, boss.name),
                              !.current_boss    = None]
                 ELSE st.self,
     changed |-> TRUE]

BossDefeatedRule_axons_apart(st) ==
    [self    |-> IF st.self.current_boss # None
                 THEN LET boss == Val(st.self.current_boss)
                      IN  [st.self EXCEPT
                              !.bosses_defeated =
                                  IF boss.is_axon
                                  THEN @
                                  ELSE AppendIfAbsent(@, boss.name),
                              !.axons_defeated  =
                                  IF boss.is_axon
                                  THEN AppendIfAbsent(@, boss.name)
                                  ELSE @,
                              !.current_boss    = None]
                 ELSE st.self,
     changed |-> TRUE]

BossDefeatedRule_logs_unknown(st) ==
    [self    |-> IF st.self.current_boss # None
                 THEN LET boss == Val(st.self.current_boss)
                      IN  [st.self EXCEPT
                              !.bosses_defeated = AppendIfAbsent(@, boss.name),
                              !.axons_defeated  =
                                  IF boss.is_axon
                                  THEN AppendIfAbsent(@, boss.name)
                                  ELSE @,
                              !.current_boss    = None]
                 ELSE [st.self EXCEPT
                          !.bosses_defeated = AppendIfAbsent(@, "Unknown")],
     changed |-> TRUE]

\* BOSS_DEFEATED branch
BossDefeatedRule(st) ==
    [self    |-> IF st.self.current_boss # None
                 THEN LET boss == Val(st.self.current_boss)
                      IN  [st.self EXCEPT
                              !.bosses_defeated = AppendIfAbsent(@, boss.name),
                              !.axons_defeated  =
                                  IF boss.is_axon
                                  THEN AppendIfAbsent(@, boss.name)
                                  ELSE @,
                              !.current_boss    = None]
                 ELSE st.self,
     changed |-> TRUE]

FlagDiscoveredRule_growth_only(st, update) ==
    IF TruthyStr(update.flag_name)
       /\ ~InList(Val(update.flag_name), st.self.flags_discovered)
    THEN [self    |-> [st.self EXCEPT
                          !.flags_discovered = Append(@, Val(update.flag_name))],
          changed |-> TRUE]
    ELSE st

\* FLAG_DISCOVERED branch
FlagDiscoveredRule(st, update) ==
    [self    |-> IF TruthyStr(update.flag_name)
                 THEN [st.self EXCEPT
                          !.flags_discovered =
                              AppendIfAbsent(@, Val(update.flag_name))]
                 ELSE st.self,
     changed |-> TRUE]

GameEventRule_boss_from_update(st, update) ==
    IF update.game_event # None /\ Val(update.game_event) # NONE
    THEN CASE Val(update.game_event) = PARTY_DEFEATED  -> PartyDefeatedRule(st)
           [] Val(update.game_event) = BOSS_DEFEATED   ->
                  BossDefeatedRule(
                      IF st.self.current_boss = None
                      THEN [st EXCEPT !.self.current_boss = update.boss]
                      ELSE st)
           [] Val(update.game_event) = FLAG_DISCOVERED -> FlagDiscoveredRule(st, update)
           [] OTHER                                    -> st
    ELSE st

\* Game event updates
GameEventRule(st, update) ==
    IF update.game_event # None /\ Val(update.game_event) # NONE
    THEN CASE Val(update.game_event) = PARTY_DEFEATED  -> PartyDefeatedRule(st)
           [] Val(update.game_event) = BOSS_DEFEATED   -> BossDefeatedRule(st)
           [] Val(update.game_event) = FLAG_DISCOVERED -> FlagDiscoveredRule(st, update)
           [] OTHER                                    -> st
    ELSE st

FlagRestRule_keeps_camp(st, update) ==
    IF TruthyStr(update.flag_name)
    THEN [self    |-> [st.self EXCEPT
                          !.last_flag        = update.flag_name,
                          !.flags_discovered =
                              AppendIfAbsent(@, Val(update.flag_name)),
                          !.current_boss     = None],
          changed |-> TRUE]
    ELSE st

FlagRestRule_no_insert(st, update) ==
    IF TruthyStr(update.flag_name)
    THEN [self    |-> [st.self EXCEPT
                          !.last_flag    = update.flag_name,
                          !.current_boss = None,
                          !.at_camp      = FALSE],
          changed |-> TRUE]
    ELSE st

\* Flag rest updates
FlagRestRule(st, update) ==
    IF TruthyStr(update.flag_name)
    THEN [self    |-> [st.self EXCEPT
                          !.last_flag        = update.flag_name,
                          !.flags_discovered =
                              AppendIfAbsent(@, Val(update.flag_name)),
                          !.current_boss     = None,
                          !.at_camp          = FALSE],
          changed |-> TRUE]
    ELSE st

CampRestRule_truthy(st, update) ==
    IF update.at_camp # None /\ Val(update.at_camp)
    THEN [self    |-> [st.self EXCEPT !.at_camp = Val(update.at_camp),
                                      !.current_boss = None],
          changed |-> TRUE]
    ELSE st

CampRestRule_keeps_boss(st, update) ==
    IF update.at_camp # None
    THEN [self    |-> [st.self EXCEPT !.at_camp = Val(update.at_camp)],
          changed |-> TRUE]
    ELSE st

CampRestRule_silent(st, update) ==
    IF update.at_camp # None
    THEN [self    |-> [st.self EXCEPT !.at_camp = Val(update.at_camp),
                                      !.current_boss = None],
          changed |-> st.changed]
    ELSE st

\* Camp rest updates
CampRestRule(st, update) ==
    IF update.at_camp # None
    THEN [self    |-> [st.self EXCEPT !.at_camp = Val(update.at_camp),
                                      !.current_boss = None],
          changed |-> TRUE]
    ELSE st

\* for char_stat in update.character_stats:
\*     self.character_stats[char_stat.name] = char_stat
RECURSIVE UpsertAll(_, _)
UpsertAll(table, list) ==
    IF list = <<>>
    THEN table
    ELSE UpsertAll(DictSet(table, Head(list).name, Head(list)), Tail(list))

StatsRule_gauge_truthy(st, update) ==
    LET s1 == IF update.character_stats # None
              THEN [self    |-> [st.self EXCEPT
                                    !.character_stats =
                                        UpsertAll(@, Val(update.character_stats))],
                    changed |-> TRUE]
              ELSE st
    IN  IF update.party_stats # None
        THEN LET ps == Val(update.party_stats)
             IN  [self    |-> [s1.self EXCEPT
                                  !.active_party =
                                      IF TruthyList(ps.active_characters)
                                      THEN Val(ps.active_characters)
                                      ELSE @,
                                  !.gradient_gauge =
                                      IF ps.gradient_gauge # None
                                         /\ Val(ps.gradient_gauge) # 0
                                      THEN Val(ps.gradient_gauge)
                                      ELSE @],
                  changed |-> TRUE]
        ELSE s1

StatsRule_changed_if_differs(st, update) ==
    LET s1 == IF update.character_stats # None
              THEN [st EXCEPT !.self.character_stats =
                                  UpsertAll(@, Val(update.character_stats))]
              ELSE st
        s2 == IF update.party_stats # None
              THEN LET ps == Val(update.party_stats)
                   IN  [s1 EXCEPT
                          !.self.active_party =
                              IF TruthyList(ps.active_characters)
                              THEN Val(ps.active_characters)
                              ELSE @,
                          !.self.gradient_gauge =
                              IF ps.gradient_gauge # None
                              THEN Val(ps.gradient_gauge)
                              ELSE @]
              ELSE s1
    IN  [self |-> s2.self, changed |-> st.changed \/ s2.self # st.self]

\* Stats updates
StatsRule(st, update) ==
    LET s1 == IF update.character_stats # None
              THEN [self    |-> [st.self EXCEPT
                                    !.character_stats =
                                        UpsertAll(@, Val(update.character_stats))],
                    changed |-> TRUE]
              ELSE st
    IN  IF update.party_stats # None
        THEN LET ps == Val(update.party_stats)
             IN  [self    |-> [s1.self EXCEPT
                                  !.active_party =
                                      IF TruthyList(ps.active_characters)
                                      THEN Val(ps.active_characters)
                                      ELSE @,
                                  !.gradient_gauge =
                                      IF ps.gradient_gauge # None
                                      THEN Val(ps.gradient_gauge)
                                      ELSE @],
                  changed |-> TRUE]
        ELSE s1

\* The blocks as one if/elif chain: the first block that changes something
\* is the only one that runs.
ApplyRules_elif(self, update) ==
    LET s0 == [self |-> self, changed |-> FALSE]
        s1 == IF Triggers(update, LOCATION) THEN LocationRule(s0, update) ELSE s0
        s2 == IF ~s1.changed /\ Triggers(update, INVENTORY)
              THEN InventoryRule(s1, update) ELSE s1
        s3 == IF ~s2.changed /\ Triggers(update, BOSS_ENCOUNTER)
              THEN BossEncounterRule(s2, update) ELSE s2
        s4 == IF ~s3.changed /\ Triggers(update, GAME_EVENT)
              THEN GameEventRule(s3, update) ELSE s3
        s5 == IF ~s4.changed /\ Triggers(update, FLAG_REST)
              THEN FlagRestRule(s4, update) ELSE s4
        s6 == IF ~s5.changed /\ Triggers(update, CAMP_REST)
              THEN CampRestRule(s5, update) ELSE s5
        s7 == IF ~s6.changed /\ Triggers(update, STATS)
              THEN StatsRule(s6, update) ELSE s6
    IN  s7

\* The body of apply_update after the NOOP return: the seven blocks in
\* their order, each run when the update type is its category or MULTIPLE.
ApplyRules(self, update) ==
    LET s0 == [self |-> self, changed |-> FALSE]
        s1 == IF Triggers(update, LOCATION) THEN LocationRule(s0, update) ELSE s0
        s2 == IF Triggers(update, INVENTORY) THEN InventoryRule(s1, update) ELSE s1
        s3 == IF Triggers(update, BOSS_ENCOUNTER)
              THEN BossEncounterRule(s2, update) ELSE s2
        s4 == IF Triggers(update, GAME_EVENT) THEN GameEventRule(s3, update) ELSE s3
        s5 == IF Triggers(update, FLAG_REST) THEN FlagRestRule(s4, update) ELSE s4
        s6 == IF Triggers(update, CAMP_REST) THEN CampRestRule(s5, update) ELSE s5
        s7 == IF Triggers(update, STATS) THEN StatsRule(s6, update) ELSE s6
    IN  s7

apply_update_noop_applied(self, update) ==
    ApplyRules(self, IF update.update_type = NOOP
                     THEN [update EXCEPT !.update_type = MULTIPLE]
                     ELSE update)

\* The frame with which apply_update enters its game event block.
BeforeGameEvent(self, update) ==
    LET s0 == [self |-> self, changed |-> FALSE]
        s1 == IF Triggers(update, LOCATION) THEN LocationRule(s0, update) ELSE s0
        s2 == IF Triggers(update, INVENTORY) THEN InventoryRule(s1, update) ELSE s1
        s3 == IF Triggers(update, BOSS_ENCOUNTER)
              THEN BossEncounterRule(s2, update) ELSE s2
    IN  s3

BossDereferenced_unguarded(st, update) ==
    /\ Triggers(update, GAME_EVENT)
    /\ update.game_event = Some(BOSS_DEFEATED)

\* self.current_boss.name and .is_axon are read: the BOSS_DEFEATED branch,
\* under `if self.current_boss is not None`.
BossDereferenced(st, update) ==
    /\ Triggers(update, GAME_EVENT)
    /\ update.game_event = Some(BOSS_DEFEATED)
    /\ st.self.current_boss # None

\* update.character_stats is iterated, under `is not None`.
StatsIterated(update) ==
    Triggers(update, STATS) /\ update.character_stats # None

\* update.party_stats.active_characters and .gradient_gauge are read, under
\* `is not None`.
PartyStatsRead(update) ==
    Triggers(update, STATS) /\ update.party_stats # None

\* The call raises instead of returning: it reads an attribute of None
\* (AttributeError) or iterates None (TypeError).  Nothing else in the
\* method can fail on a StateUpdate and a GameState.
apply_raises(self, update) ==
    /\ update.update_type # NOOP
    /\ \/ LET st == BeforeGameEvent(self, update)
          IN  BossDereferenced(st, update) /\ st.self.current_boss = None
       \/ StatsIterated(update) /\ update.character_stats = None
       \/ PartyStatsRead(update) /\ update.party_stats = None

\* GameState.apply_update: the GameState after the call and the returned flag.
apply_update(self, update) ==
    IF update.update_type = NOOP
    THEN [self |-> self, changed |-> FALSE]
    ELSE ApplyRules(self, update)

\* What an update carries for each overwrite field, None where the
\* assignment to that field is not reached: the block's type test and the
\* condition in front of the assignment.
Carried(update) ==
    [player_location |->
        IF Triggers(update, LOCATION) /\ TruthyStr(update.new_location)
        THEN update.new_location ELSE None,
     inventory |->
        IF Triggers(update, INVENTORY) THEN update.inventory_items ELSE None,
     pictos |->
        IF Triggers(update, INVENTORY) THEN update.pictos ELSE None,
     last_flag |->
        IF Triggers(update, FLAG_REST) /\ TruthyStr(update.flag_name)
        THEN update.flag_name ELSE None,
     active_party |->
        IF /\ Triggers(update, STATS)
           /\ update.party_stats # None
           /\ TruthyList(Val(update.party_stats).active_characters)
        THEN Val(update.party_stats).active_characters ELSE None,
     gradient_gauge |->
        IF Triggers(update, STATS) /\ update.party_stats # None
        THEN Val(update.party_stats).gradient_gauge ELSE None]

\* The values carried by the most recent updates, after one more update.
Latest(seen, update) ==
    [f \in DOMAIN seen |->
        IF update.update_type # NOOP /\ Carried(update)[f] # None
        THEN Carried(update)[f]
        ELSE seen[f]]

\* No update seen yet.
NothingSeen ==
    [player_location |-> None, inventory |-> None, pictos |-> None,
     last_flag |-> None, active_party |-> None, gradient_gauge |-> None]

(***************************************************************************)
(* One tracked session: the agent's loop takes the analyzer's StateUpdate  *)
(* for a frame, applies it to its GameState, and goes on to the next       *)
(* frame.                                                                  *)
(***************************************************************************)
VARIABLES
    scenario,   \* the observation stream of this run
    gs,         \* the tracked GameState
    pc,         \* "idle" between frames, "applied" when apply_update returned,
                \* "reapplied" when it returned for the same update again
    prev,       \* the GameState when the last call began
    update,     \* the StateUpdate of the last call
    changed,    \* the flag the last call returned
    stored,     \* the GameState in the store, None while nothing was saved
    ref,        \* the GameState of a caller that saves after every call
    last,       \* per overwrite field, the value carried by the most recent
                \* update that assigned it, None if there was none
    race,       \* the writers that share the store, see SpecRace
    ctx,        \* the last call of the context provider, see SpecContext
    coach,      \* the Coach object and its last call, see SpecCoach
    cache,      \* the SemanticCache object and its last call, see SpecCache
    provenance, \* the names the applied updates carried, see SpecProvenance
    knowledge   \* data/game_knowledge.json and the last run of
                \* transform_zone, see SpecTransform

\* The objects of the voice agent.
voice == <<coach, cache>>

\* The variables of the components around the tracked session.
side == <<race, ctx, voice, provenance, knowledge>>

\* The tracked session and its store.
session == <<scenario, gs, pc, prev, update, changed, stored, ref, last>>

vars == <<scenario, gs, pc, prev, update, changed, stored, ref, last, side>>

\* data/game_knowledge.json does not exist and transform_zone has not run.
NoKnowledge ==
    [exists |-> FALSE, entries |-> <<>>,
     run |-> [mode |-> "none", zone_name |-> <<>>, existing |-> <<>>,
              entries |-> <<>>, skipped |-> 0, written |-> <<>>]]

\* No update applied yet.
NoProvenance == [bosses |-> {}, axons |-> {}, flags |-> {}]

\* Coach not constructed yet.
NoCoach == [built |-> FALSE]

\* SemanticCache not constructed yet.
NoCache == [built |-> FALSE]

\* No context has been asked for.
NoContext == [given |-> None, after |-> None, knowledge |-> <<>>, context |-> None]

\* The writers of one session's GameState in the store.
Workers == {1, 2}

\* No writer has begun a cycle.
NoRace ==
    [pc         |-> [w \in Workers |-> "idle"],
     gs         |-> [w \in Workers |-> GameState],
     changed    |-> [w \in Workers |-> FALSE],
     overlapped |-> FALSE,
     wipes      |-> 0,
     inserted   |-> {}]

Init ==
    /\ scenario \in Scenarios
    /\ gs = GameState
    /\ pc = "idle"
    /\ prev = GameState
    /\ update = StateUpdate(NOOP)
    /\ changed = FALSE
    /\ stored = None
    /\ ref = GameState
    /\ last = NothingSeen
    /\ race = NoRace
    /\ ctx = NoContext
    /\ coach = NoCoach
    /\ cache = NoCache
    /\ provenance = NoProvenance
    /\ knowledge = NoKnowledge

\* changed = game_state.apply_update(update)
Apply ==
    /\ pc = "idle"
    /\ \E u \in StateUpdates(scenario) :
        LET r == apply_update(gs, u)
        IN  /\ r.self.party_defeats <= MaxDefeats
            /\ gs' = r.self
            /\ prev' = gs
            /\ update' = u
            /\ changed' = r.changed
            /\ last' = Latest(last, u)
    /\ pc' = "applied"
    /\ UNCHANGED <<scenario, stored, ref, side>>

\* The loop goes on to the next frame: the update and the flag of the last
\* call are dropped, the GameState is kept.
NextFrame ==
    /\ pc \in {"applied", "reapplied"}
    /\ pc' = "idle"
    /\ prev' = gs
    /\ update' = StateUpdate(NOOP)
    /\ changed' = FALSE
    /\ UNCHANGED <<scenario, gs, stored, ref, last, side>>

Next == Apply \/ NextFrame

Spec == Init /\ [][Next]_vars

\* The names an update brings: of its boss, of its boss if flagged an Axon,
\* and its flag name.  An update of type noop is returned at once and
\* brings nothing.
Noted(seen, u) ==
    IF u.update_type = NOOP
    THEN seen
    ELSE [bosses |-> seen.bosses \cup
                        (IF u.boss # None THEN {Val(u.boss).name} ELSE {}),
          axons  |-> seen.axons \cup
                        (IF u.boss # None /\ Val(u.boss).is_axon
                         THEN {Val(u.boss).name} ELSE {}),
          flags  |-> seen.flags \cup
                        (IF u.flag_name # None THEN {Val(u.flag_name)} ELSE {})]

\* changed = game_state.apply_update(update), with the names the update
\* carried noted
ApplyTracked ==
    /\ pc = "idle"
    /\ \E u \in StateUpdates(scenario) :
        LET r == apply_update(gs, u)
        IN  /\ r.self.party_defeats <= MaxDefeats
            /\ gs' = r.self
            /\ prev' = gs
            /\ update' = u
            /\ changed' = r.changed
            /\ last' = Latest(last, u)
            /\ provenance' = Noted(provenance, u)
    /\ pc' = "applied"
    /\ UNCHANGED <<scenario, stored, ref, race, ctx, voice, knowledge>>

NextProvenance == ApplyTracked \/ NextFrame

SpecProvenance == Init /\ [][NextProvenance]_vars

\* The analyzer reports the same StateUpdate for the next frame, and it is
\* applied again: changed = game_state.apply_update(update)
Reapply ==
    /\ pc = "applied"
    /\ LET r == apply_update(gs, update)
       IN  /\ r.self.party_defeats <= MaxDefeats
           /\ gs' = r.self
           /\ prev' = gs
           /\ changed' = r.changed
           /\ last' = Latest(last, update)
    /\ pc' = "reapplied"
    /\ UNCHANGED <<scenario, update, stored, ref, side>>

NextRepeat == Apply \/ Reapply \/ NextFrame

\* Sessions in which a StateUpdate may be applied twice in a row.
SpecRepeat == Init /\ [][NextRepeat]_vars

(***************************************************************************)
(* The caller's cycle around the store: load the GameState (or construct   *)
(* the default one), apply one StateUpdate, save it only if the call       *)
(* returned true.  A saved GameState is loaded back as it was saved.       *)
(***************************************************************************)
\* What a load from the store yields.
Loaded(store) == IF store = None THEN GameState ELSE Val(store)

Load ==
    /\ pc = "idle"
    /\ gs' = Loaded(stored)
    /\ pc' = "loaded"
    /\ UNCHANGED <<scenario, prev, update, changed, stored, ref, last, side>>

\* changed = game_state.apply_update(update), on the GameState just loaded
ApplyLoaded ==
    /\ pc = "loaded"
    /\ \E u \in StateUpdates(scenario) :
        LET r == apply_update(gs, u)
        IN  /\ r.self.party_defeats <= MaxDefeats
            /\ gs' = r.self
            /\ prev' = gs
            /\ update' = u
            /\ changed' = r.changed
            /\ ref' = apply_update(ref, u).self
            /\ last' = Latest(last, u)
    /\ pc' = "applied"
    /\ UNCHANGED <<scenario, stored, side>>

\* if changed: save the GameState
SaveIfChanged ==
    /\ pc = "applied"
    /\ stored' = IF changed THEN Some(gs) ELSE stored
    /\ pc' = "idle"
    /\ prev' = gs
    /\ update' = StateUpdate(NOOP)
    /\ changed' = FALSE
    /\ UNCHANGED <<scenario, gs, ref, last, side>>

NextPersist == Load \/ ApplyLoaded \/ SaveIfChanged

SpecPersist == Init /\ [][NextPersist]_vars

(***************************************************************************)
(* Several writers on one session's GameState, as when frames are          *)
(* classified in parallel: each runs the cycle load, apply_update, save if *)
(* changed on its own copy.  Neither apply_update nor the cycle takes a    *)
(* lock.  race.overlapped records that a writer loaded while another was   *)
(* between its load and its save; race.wipes counts the party_defeated     *)
(* updates applied, race.inserted collects the flag names the calls        *)
(* appended to flags_discovered.                                           *)
(***************************************************************************)
\* The updates the writers apply: game events and flag rests of the stream,
\* with the payload of the other categories left out.
RaceUpdates(s) ==
    {u \in StateUpdates(s) :
        /\ u.update_type \in {GAME_EVENT, FLAG_REST}
        /\ u.new_location = None
        /\ u.boss = None
        /\ u.at_camp = None}

Elements(list) == {list[i] : i \in DOMAIN list}

WorkerLoad(w) ==
    /\ race.pc[w] = "idle"
    /\ race' = [race EXCEPT
                    !.pc[w] = "loaded",
                    !.gs[w] = Loaded(stored),
                    !.overlapped =
                        @ \/ \E v \in Workers \ {w} : race.pc[v] # "idle"]
    /\ UNCHANGED <<scenario, gs, pc, prev, update, changed, stored, ref, last, ctx, voice, provenance, knowledge>>

\* changed = game_state.apply_update(update), on the writer's copy
WorkerApply(w) ==
    /\ race.pc[w] = "loaded"
    /\ \E u \in RaceUpdates(scenario) :
        LET r == apply_update(race.gs[w], u)
            wiped == Triggers(u, GAME_EVENT) /\ u.game_event = Some(PARTY_DEFEATED)
        IN  /\ r.self.party_defeats <= MaxDefeats
            /\ wiped => race.wipes < MaxDefeats
            /\ race' = [race EXCEPT
                            !.pc[w] = "applied",
                            !.gs[w] = r.self,
                            !.changed[w] = r.changed,
                            !.wipes = IF wiped THEN @ + 1 ELSE @,
                            !.inserted =
                                @ \cup (Elements(r.self.flags_discovered)
                                           \ Elements(race.gs[w].flags_discovered))]
    /\ UNCHANGED <<scenario, gs, pc, prev, update, changed, stored, ref, last, ctx, voice, provenance, knowledge>>

\* if changed: save the writer's copy; the copy is dropped
WorkerSave(w) ==
    /\ race.pc[w] = "applied"
    /\ stored' = IF race.changed[w] THEN Some(race.gs[w]) ELSE stored
    /\ race' = [race EXCEPT
                    !.pc[w] = "idle",
                    !.gs[w] = GameState,
                    !.changed[w] = FALSE]
    /\ UNCHANGED <<scenario, gs, pc, prev, update, changed, ref, last, ctx, voice, provenance, knowledge>>

NextRace == \E w \in Workers : WorkerLoad(w) \/ WorkerApply(w) \/ WorkerSave(w)

SpecRace == Init /\ [][NextRace]_vars

(***************************************************************************)
(* ContextProvider (src/voice_agent/src/context.py): the voice agent's     *)
(* view of the GameState.  A text is its body and its length; a line of    *)
(* the context is its label followed by the values formatted into it.      *)
(***************************************************************************)
\* if len(desc) > 200
TextLimit == 200

Text(body, len) == [body |-> body, len |-> len, ellipsis |-> FALSE]

\* desc[:200] + "..." for a text longer than the limit
Truncated(t) ==
    IF t.len > TextLimit
    THEN [body |-> t.body, len |-> TextLimit + 3, ellipsis |-> TRUE]
    ELSE t

\* One result of search_game_knowledge.
KnowledgeEntry(name, type, area, description, tips) ==
    [name |-> name, type |-> type, area |-> area,
     description |-> description, tips |-> tips]

\* The lists of knowledge results formatted.
KnowledgeResults ==
    {<<>>,
     <<KnowledgeEntry("Goblu", "boss", "Flying Waters", Text("", 0), Text("", 0))>>,
     <<KnowledgeEntry("Goblu", "boss", "Flying Waters",
                      Text("A giant", TextLimit + 1), Text("Parry", TextLimit)),
       KnowledgeEntry("Lumiere", "zone", "Lumiere", Text("The city", 8), Text("", 0))>>}

\* The <game_state> part.
StateLines(g) ==
    <<  <<"<game_state>">>,
        <<"Location: ", g.player_location>>,
        <<"Active Party: ", g.active_party>>  >>
    \o (IF g.current_boss # None
        THEN << <<"Current Boss: ", Val(g.current_boss).name,
                  Val(g.current_boss).hp_percentage>> >>
        ELSE <<>>)
    \o (IF TruthyStr(g.last_flag)
        THEN << <<"Last Flag: ", Val(g.last_flag)>> >> ELSE <<>>)
    \o (IF g.gradient_gauge > 0
        THEN << <<"Gradient Gauge: ", g.gradient_gauge>> >> ELSE <<>>)
    \o (IF g.bosses_defeated # <<>>
        THEN << <<"Bosses Defeated: ", g.bosses_defeated>> >> ELSE <<>>)
    \o (IF g.at_camp THEN << <<"Status: At camp">> >> ELSE <<>>)
    \o <<  <<"</game_state>">>  >>

\* The lines of one knowledge result, numbered i.
EntryLines(i, entry) ==
    <<  <<i, entry.name, entry.type, entry.area>>  >>
    \o (IF entry.description.len > 0
        THEN << <<"   ", Truncated(entry.description)>> >> ELSE <<>>)
    \o (IF entry.tips.len > 0
        THEN << <<"   Tips: ", Truncated(entry.tips)>> >> ELSE <<>>)

RECURSIVE KnowledgeLines(_, _)
KnowledgeLines(i, results) ==
    IF i > Len(results)
    THEN <<>>
    ELSE EntryLines(i, results[i]) \o KnowledgeLines(i + 1, results)

\* The arguments as the call leaves them, and the string it returns.
ContextOf(game_state, knowledge_results) ==
    LET parts ==
            (IF game_state # None THEN <<StateLines(Val(game_state))>> ELSE <<>>)
            \o (IF knowledge_results # <<>>
                THEN << <<  <<"<game_knowledge>">>  >>
                        \o KnowledgeLines(1, knowledge_results)
                        \o <<  <<"</game_knowledge>">>  >> >>
                ELSE <<>>)
    IN  IF parts = <<>> THEN None ELSE Some(parts)

format_context_aliasing(game_state, knowledge_results) ==
    [game_state |->
        IF game_state # None
        THEN Some([Val(game_state) EXCEPT
                      !.bosses_defeated = <<"Bosses Defeated: ">> \o @])
        ELSE None,
     knowledge_results |-> knowledge_results,
     context |-> ContextOf(game_state, knowledge_results)]

\* ContextProvider.format_context: game_state and knowledge_results after
\* the call, and the returned context.
format_context(game_state, knowledge_results) ==
    [game_state        |-> game_state,
     knowledge_results |-> knowledge_results,
     context           |-> ContextOf(game_state, knowledge_results)]

\* context = provider.format_context(game_state, knowledge_results), on the
\* tracked GameState or on None
FormatContext ==
    /\ pc = "idle"
    /\ \E g \in {None, Some(gs)}, k \in KnowledgeResults :
        LET r == format_context(g, k)
        IN  /\ ctx' = [given |-> g, after |-> r.game_state,
                       knowledge |-> r.knowledge_results, context |-> r.context]
            /\ gs' = IF g = None THEN gs ELSE Val(r.game_state)
    /\ prev' = gs
    /\ pc' = "formatted"
    /\ UNCHANGED <<scenario, update, changed, stored, ref, last, race, voice, provenance, knowledge>>

\* ContextProvider.get_context_for_query: get_game_state gives what the
\* store holds, or None (nothing there, or the load failed); the knowledge
\* search gives a list, empty when it failed.
GetContextForQuery ==
    /\ pc = "idle"
    /\ \E g \in {None, stored}, k \in KnowledgeResults :
        LET r == format_context(g, k)
        IN  ctx' = [given |-> g, after |-> r.game_state,
                    knowledge |-> r.knowledge_results, context |-> r.context]
    /\ prev' = gs
    /\ pc' = "formatted"
    /\ UNCHANGED <<scenario, gs, update, changed, stored, ref, last, race, voice, provenance, knowledge>>

\* The context goes into the prompt and is dropped.
ContextUsed ==
    /\ pc = "formatted"
    /\ ctx' = NoContext
    /\ pc' = "idle"
    /\ UNCHANGED <<scenario, gs, prev, update, changed, stored, ref, last, race, voice, provenance, knowledge>>

NextContext ==
    \/ Load \/ ApplyLoaded \/ SaveIfChanged
    \/ FormatContext \/ GetContextForQuery \/ ContextUsed

\* The session with its store, and the voice agent asking for context
\* between the cycles.
SpecContext == Init /\ [][NextContext]_vars

(***************************************************************************)
(* Coach (src/voice-agent/src/coach.py): the conversation with the model.  *)
(* coach.unanswered records that the last request to the model raised and  *)
(* the history was not cleared since.                                      *)
(***************************************************************************)
\* Largest max_history a Coach is built with.
MaxHistory == 2

\* get_response is called while the history has room for its two messages.
MaxMessages == 4

APOLOGY == "I didn't catch that. Could you repeat your question?"

\* user_message.strip()
Strip(text) == IF text = "  " THEN "" ELSE text

\* {"role": "user", "content": content}: the text alone, or the text with
\* the screenshot as a base64 data URL.
UserMessage(text, screenshot) ==
    [role    |-> "user",
     content |-> [text      |-> text,
                  image_url |-> IF screenshot # None /\ Val(screenshot) # ""
                                THEN Some(<<"data:image/jpeg;base64,",
                                            Val(screenshot)>>)
                                ELSE None]]

\* {"role": "assistant", "content": assistant_message}
AssistantMessage(text) ==
    [role |-> "assistant", content |-> [text |-> text, image_url |-> None]]

\* list[start:] of Python
SliceFrom(list, start) ==
    LET from == IF start < 0
                THEN (IF Len(list) + start < 0 THEN 0 ELSE Len(list) + start)
                ELSE (IF start > Len(list) THEN Len(list) ELSE start)
    IN  SubSeq(list, from + 1, Len(list))

\* if len(self._history) > self._max_history:
\*     self._history = self._history[-self._max_history :]
Trim(history, max_history) ==
    IF Len(history) > max_history
    THEN SliceFrom(history, 0 - max_history)
    ELSE history

\* What the chat completion request does: it raises, or it answers with a
\* message content (None, "" or a text).
ApiOutcomes ==
    {[raises |-> TRUE, content |-> None]}
    \cup {[raises |-> FALSE, content |-> c] :
             c \in {None, Some(""), Some("Parry the combo.")}}

get_response_rollback(self, user_message, screenshot, outcome) ==
    IF Strip(user_message) = ""
    THEN [self |-> self, returned |-> Some(APOLOGY), raised |-> FALSE,
          messages |-> None]
    ELSE LET asked == Trim(Append(self.history,
                                  UserMessage(user_message, screenshot)),
                           self.max_history)
             messages == <<[role |-> "system", content |-> self.system_prompt]>>
                         \o asked
             assistant_message ==
                 IF TruthyStr(outcome.content) THEN Val(outcome.content) ELSE ""
         IN  IF outcome.raises
             THEN [self |-> self,
                   returned |-> None, raised |-> TRUE,
                   messages |-> Some(messages)]
             ELSE [self |-> [self EXCEPT !.history =
                                Append(asked, AssistantMessage(assistant_message))],
                   returned |-> Some(assistant_message), raised |-> FALSE,
                   messages |-> Some(messages)]

\* Coach.get_response: the Coach after the call, what it returned (None
\* when it raised) and the messages it sent (None when it sent none).
get_response(self, user_message, screenshot, outcome) ==
    IF Strip(user_message) = ""
    THEN [self |-> self, returned |-> Some(APOLOGY), raised |-> FALSE,
          messages |-> None]
    ELSE LET asked == Trim(Append(self.history,
                                  UserMessage(user_message, screenshot)),
                           self.max_history)
             messages == <<[role |-> "system", content |-> self.system_prompt]>>
                         \o asked
             assistant_message ==
                 IF TruthyStr(outcome.content) THEN Val(outcome.content) ELSE ""
         IN  IF outcome.raises
             THEN [self |-> [self EXCEPT !.history = asked],
                   returned |-> None, raised |-> TRUE,
                   messages |-> Some(messages)]
             ELSE [self |-> [self EXCEPT !.history =
                                Append(asked, AssistantMessage(assistant_message))],
                   returned |-> Some(assistant_message), raised |-> FALSE,
                   messages |-> Some(messages)]

\* No call of the Coach yet.
NoCall ==
    [made |-> FALSE, user_message |-> "", after_failure |-> FALSE,
     before |-> <<>>, after |-> <<>>,
     returned |-> None, raised |-> FALSE, messages |-> None]

\* Coach(api_key, system_prompt=..., max_history=N): without a key from the
\* argument or the environment it raises and no Coach is built.
CoachInit ==
    /\ ~coach.built
    /\ \E api_key \in {None, Some("")}, env_key \in {None, Some("sk-1")},
          system_prompt \in {None, Some("Coach me.")}, max_history \in 0..MaxHistory :
        LET key == IF TruthyStr(api_key) THEN api_key ELSE env_key
        IN  IF ~TruthyStr(key)
            THEN coach' = [built |-> FALSE, error |-> "ValueError"]
            ELSE coach' = [built         |-> TRUE,
                           api_key       |-> Val(key),
                           system_prompt |-> IF TruthyStr(system_prompt)
                                             THEN Val(system_prompt)
                                             ELSE "DEFAULT_SYSTEM_PROMPT",
                           max_history   |-> max_history,
                           history       |-> <<>>,
                           unanswered    |-> FALSE,
                           call          |-> NoCall]
    /\ UNCHANGED <<session, race, ctx, cache, provenance, knowledge>>

\* coach.get_response(user_message, screenshot)
GetResponse ==
    /\ coach.built
    /\ Len(coach.history) + 2 <= MaxMessages
    /\ \E user_message \in {"", "  ", "How do I beat Goblu?", "And now?"},
          screenshot \in {None, Some(""), Some("jpeg")},
          outcome \in ApiOutcomes :
        LET r == get_response(coach, user_message, screenshot, outcome)
        IN  coach' = [r.self EXCEPT
                         !.unanswered =
                             IF r.messages = None THEN @ ELSE r.raised,
                         !.call =
                             [made          |-> TRUE,
                              user_message  |-> user_message,
                              after_failure |-> coach.unanswered,
                              before        |-> coach.history,
                              after         |-> r.self.history,
                              returned      |-> r.returned,
                              raised        |-> r.raised,
                              messages      |-> r.messages]]
    /\ UNCHANGED <<session, race, ctx, cache, provenance, knowledge>>

\* coach.clear_history()
ClearHistory ==
    /\ coach.built
    /\ coach' = [coach EXCEPT !.history = <<>>, !.unanswered = FALSE]
    /\ UNCHANGED <<session, race, ctx, cache, provenance, knowledge>>

NextCoach == CoachInit \/ GetResponse \/ ClearHistory

SpecCoach == Init /\ [][NextCoach]_vars

(***************************************************************************)
(* SemanticCache (src/voice_agent/src/semantic_cache.py).  Scores and the  *)
(* threshold are in hundredths.  A dict of the backend is a function on    *)
(* the keys it has; the value of "score" is Some(number) or None (null).   *)
(***************************************************************************)
\* similarity_threshold values a cache is built with; 90 is the default.
Thresholds == {0, 90, 100}

\* dict.get(key, default)
Get(dict, key, default) == IF key \in DOMAIN dict THEN dict[key] ELSE default

Result(score, response) == [k \in {"score", "response"} |->
                               IF k = "score" THEN score ELSE response]

\* What self._client.search(prompt=prompt) does: it raises, or returns None,
\* an empty dict, or a dict with or without "score" and "response".
SearchOutcomes ==
    {[raises |-> TRUE, result |-> None]}
    \cup {[raises |-> FALSE, result |-> r] :
             r \in {None, Some(<<>>)}
                   \cup {Some(Result(Some(n), "Parry the combo.")) :
                            n \in {0, 50, 90, 95}}
                   \cup {Some(Result(None, "Parry the combo.")),
                         Some([k \in {"response"} |-> "Parry the combo."]),
                         Some([k \in {"score"} |-> Some(95)])}}

\* What self._client.set(prompt=..., response=...) does.
SetOutcomes == {[raises |-> TRUE], [raises |-> FALSE]}

search_unscored(self, prompt, outcome) ==
    IF ~self.enabled \/ ~self.client
    THEN [found |-> None, backend_called |-> FALSE, raised |-> FALSE]
    ELSE IF outcome.raises \/ outcome.result = None
         THEN [found |-> None, backend_called |-> TRUE, raised |-> FALSE]
         ELSE LET result == Val(outcome.result)
              IN  [found |-> IF DOMAIN result # {} /\ "response" \in DOMAIN result
                             THEN Some(result["response"]) ELSE None,
                   backend_called |-> TRUE, raised |-> FALSE]

\* SemanticCache.search: what it returns, and whether it called the backend.
\* An exception of the backend call, or of comparing a null score, is caught.
search(self, prompt, outcome) ==
    IF ~self.enabled \/ ~self.client
    THEN [found |-> None, backend_called |-> FALSE, raised |-> FALSE]
    ELSE IF outcome.raises \/ outcome.result = None
         THEN [found |-> None, backend_called |-> TRUE, raised |-> FALSE]
         ELSE LET result == Val(outcome.result)
                  score  == Get(result, "score", Some(0))
              IN  [found |->
                      IF /\ DOMAIN result # {}
                         /\ score # None
                         /\ Val(score) >= self.similarity_threshold
                         /\ "response" \in DOMAIN result
                      THEN Some(result["response"])
                      ELSE None,
                   backend_called |-> TRUE, raised |-> FALSE]

store_uncaught(self, prompt, response, outcome) ==
    IF ~self.enabled \/ ~self.client
    THEN [ok |-> FALSE, backend_called |-> FALSE, raised |-> FALSE]
    ELSE [ok |-> ~outcome.raises, backend_called |-> TRUE,
          raised |-> outcome.raises]

\* SemanticCache.store: what it returns, whether it called the backend, and
\* whether an exception left it.  An exception of the backend call is
\* caught.
store(self, prompt, response, outcome) ==
    IF ~self.enabled \/ ~self.client
    THEN [ok |-> FALSE, backend_called |-> FALSE, raised |-> FALSE]
    ELSE [ok |-> ~outcome.raises, backend_called |-> TRUE, raised |-> FALSE]

\* No call of the cache yet.
NoCacheCall ==
    [op |-> "none", result |-> None, found |-> None, ok |-> FALSE,
     backend_called |-> FALSE, backend_raised |-> FALSE, raised |-> FALSE]

\* SemanticCache(server_url, cache_id, api_key, similarity_threshold): each
\* setting falls back to its environment variable; with all three set the
\* client is constructed, which may fail.
CacheInit ==
    /\ ~cache.built
    /\ \E server_url \in {None, Some("https://cache")},
          env_url \in {None, Some("")},
          cache_id \in {None, Some("c1")},
          api_key \in {None, Some(""), Some("k1")},
          threshold \in Thresholds,
          construct \in {"ok", "ImportError", "Exception"} :
        LET url == IF TruthyStr(server_url) THEN server_url ELSE env_url
            configured == TruthyStr(url) /\ TruthyStr(cache_id) /\ TruthyStr(api_key)
        IN  cache' = [built                |-> TRUE,
                      server_url           |-> url,
                      cache_id             |-> cache_id,
                      api_key              |-> api_key,
                      similarity_threshold |-> threshold,
                      construct_failed     |-> configured /\ construct # "ok",
                      client               |-> configured /\ construct = "ok",
                      enabled              |-> configured /\ construct = "ok",
                      call                 |-> NoCacheCall]
    /\ UNCHANGED <<session, race, ctx, coach, provenance, knowledge>>

\* cache.search(prompt)
Search ==
    /\ cache.built
    /\ \E outcome \in SearchOutcomes :
        LET r == search(cache, "How do I beat Goblu?", outcome)
        IN  cache' = [cache EXCEPT !.call =
                         [op |-> "search",
                          result |-> IF r.backend_called /\ ~outcome.raises
                                     THEN outcome.result ELSE None,
                          found |-> r.found, ok |-> FALSE,
                          backend_called |-> r.backend_called,
                          backend_raised |-> r.backend_called /\ outcome.raises,
                          raised |-> r.raised]]
    /\ UNCHANGED <<session, race, ctx, coach, provenance, knowledge>>

\* cache.store(prompt, response)
Store ==
    /\ cache.built
    /\ \E outcome \in SetOutcomes :
        LET r == store(cache, "How do I beat Goblu?", "Parry the combo.", outcome)
        IN  cache' = [cache EXCEPT !.call =
                         [op |-> "store", result |-> None, found |-> None,
                          ok |-> r.ok, backend_called |-> r.backend_called,
                          backend_raised |-> r.backend_called /\ outcome.raises,
                          raised |-> r.raised]]
    /\ UNCHANGED <<session, race, ctx, coach, provenance, knowledge>>

NextCache == CacheInit \/ Search \/ Store

SpecCache == Init /\ [][NextCache]_vars

\* apply_update has just returned.
Applied == pc = "applied"

(***************************************************************************)
(* Properties of apply_update.                                             *)
(***************************************************************************)
IsPrefix(a, b) == Len(a) <= Len(b) /\ SubSeq(b, 1, Len(a)) = a

NoDuplicates(list) == \A i, j \in DOMAIN list : list[i] = list[j] => i = j

\* The game event block ran and dispatched on event e.
EventApplied(e) ==
    Triggers(update, GAME_EVENT) /\ update.game_event = Some(e)

\* The flag rest block ran and found a flag name it applies.
FlagRestApplied == Triggers(update, FLAG_REST) /\ TruthyStr(update.flag_name)

\* The camp rest block ran and found an at_camp value.
CampRestApplied == Triggers(update, CAMP_REST) /\ update.at_camp # None

\* C1: a call with an update of type noop returns false and leaves every
\* field of the GameState as it was, whatever payload the update carries.
C1_NoopPurity ==
    Applied /\ update.update_type = NOOP => ~changed /\ gs = prev

C1_Witness ==
    /\ Applied
    /\ update.update_type = NOOP
    /\ update.boss # None
    /\ update.game_event = Some(PARTY_DEFEATED)
    /\ prev.current_boss # None
    /\ gs = prev
    /\ ~changed

\* C2: whenever a call returns false, no field of the GameState differs from
\* its value before the call.
C2_ChangeSignalSound == Applied /\ ~changed => gs = prev

C2_Witness ==
    /\ Applied
    /\ update.update_type = MULTIPLE
    /\ update.new_location = Some(prev.player_location)
    /\ update.flag_name = Some("")
    /\ prev.current_boss # None
    /\ ~changed
    /\ gs = prev

\* C3: in every call, each of bosses_defeated, axons_defeated and
\* flags_discovered before the call is a prefix of its value after the call.
C3_MonotonicGrowth ==
    Applied =>
        /\ IsPrefix(prev.bosses_defeated, gs.bosses_defeated)
        /\ IsPrefix(prev.axons_defeated, gs.axons_defeated)
        /\ IsPrefix(prev.flags_discovered, gs.flags_discovered)

C3_Witness ==
    /\ Applied
    /\ prev.flags_discovered = <<"Spring Meadows">>
    /\ gs.flags_discovered = <<"Spring Meadows", "Flying Waters">>

\* C4: in every reachable GameState no name occurs twice in bosses_defeated,
\* in axons_defeated or in flags_discovered.
C4_NoDuplicates ==
    /\ NoDuplicates(gs.bosses_defeated)
    /\ NoDuplicates(gs.axons_defeated)
    /\ NoDuplicates(gs.flags_discovered)

C4_Witness ==
    /\ Applied
    /\ EventApplied(FLAG_DISCOVERED)
    /\ TruthyStr(update.flag_name)
    /\ InList(Val(update.flag_name), prev.flags_discovered)
    /\ Len(prev.flags_discovered) = 2
    /\ gs.flags_discovered = prev.flags_discovered

\* C5 as claimed: after a call in which a game event other than none (party
\* defeated, boss defeated or flag discovered), a flag rest with a flag name
\* or a camp rest with an at_camp value was applied, current_boss is None.
C5_ClearedOnEveryTransition ==
    Applied /\ ( \/ \E e \in GameEvent \ {NONE} : EventApplied(e)
                 \/ FlagRestApplied
                 \/ CampRestApplied )
    => gs.current_boss = None

\* C5, amended: after a call in which a party_defeated or boss_defeated game
\* event, a flag rest with a non-empty flag name or a camp rest with an
\* at_camp value was applied, current_boss is None.
C5_ClearedOnDefeatOrRest ==
    Applied /\ ( \/ EventApplied(PARTY_DEFEATED)
                 \/ EventApplied(BOSS_DEFEATED)
                 \/ FlagRestApplied
                 \/ CampRestApplied )
    => gs.current_boss = None

C5_Witness ==
    /\ Applied
    /\ update.update_type = MULTIPLE
    /\ update.boss # None
    /\ update.game_event = Some(BOSS_DEFEATED)
    /\ prev.current_boss # None
    /\ gs.current_boss = None

\* C6: a boss_defeated game event (update type game_event) applied while
\* current_boss has name X leaves X in bosses_defeated, X in axons_defeated
\* if the boss was an Axon and axons_defeated as it was if not, current_boss
\* None, and returns true.
C6_DefeatBookkeeping ==
    Applied /\ update.update_type = GAME_EVENT
            /\ update.game_event = Some(BOSS_DEFEATED)
            /\ prev.current_boss # None
    => LET boss == Val(prev.current_boss)
       IN  /\ InList(boss.name, gs.bosses_defeated)
           /\ boss.is_axon => InList(boss.name, gs.axons_defeated)
           /\ ~boss.is_axon => gs.axons_defeated = prev.axons_defeated
           /\ gs.current_boss = None
           /\ changed

C6_Witness ==
    /\ Applied
    /\ update.update_type = GAME_EVENT
    /\ update.game_event = Some(BOSS_DEFEATED)
    /\ prev.current_boss = Some(BossState("Goblu", 50, TRUE))
    /\ prev.bosses_defeated = <<"Lampmaster", "Goblu">>
    /\ prev.axons_defeated = <<>>
    /\ gs.bosses_defeated = <<"Lampmaster", "Goblu">>
    /\ gs.axons_defeated = <<"Goblu">>
    /\ gs.current_boss = None
    /\ changed

\* C7: party_defeats never decreases; a call whose update (type game_event
\* or multiple) carries party_defeated raises it by exactly 1, leaves
\* current_boss None and returns true; every other call leaves it unchanged.
C7_WipeCounter ==
    Applied =>
        IF EventApplied(PARTY_DEFEATED)
        THEN /\ gs.party_defeats = prev.party_defeats + 1
             /\ gs.current_boss = None
             /\ changed
        ELSE gs.party_defeats = prev.party_defeats

C7_Witness ==
    /\ Applied
    /\ update.update_type = MULTIPLE
    /\ update.boss # None
    /\ update.game_event = Some(PARTY_DEFEATED)
    /\ prev.party_defeats = 1
    /\ gs.party_defeats = 2
    /\ gs.current_boss = None
    /\ changed

\* C8: an update of type camp_rest whose at_camp is present (true or false)
\* sets at_camp to it, sets current_boss to None and returns true; with
\* at_camp absent nothing changes and the call returns false.
C8_CampRest ==
    Applied /\ update.update_type = CAMP_REST =>
        IF update.at_camp # None
        THEN /\ gs.at_camp = Val(update.at_camp)
             /\ gs.current_boss = None
             /\ changed
        ELSE gs = prev /\ ~changed

C8_Witness ==
    /\ Applied
    /\ update.update_type = CAMP_REST
    /\ update.at_camp = Some(FALSE)
    /\ prev.at_camp = TRUE
    /\ prev.current_boss # None
    /\ gs.at_camp = FALSE
    /\ gs.current_boss = None
    /\ changed

\* What C9 says of a flag rest with flag name w.
FlagRestEffect(w) ==
    /\ gs.last_flag = Some(w)
    /\ InList(w, gs.flags_discovered)
    /\ gs.flags_discovered =
           IF InList(w, prev.flags_discovered)
           THEN prev.flags_discovered
           ELSE Append(prev.flags_discovered, w)
    /\ gs.current_boss = None
    /\ gs.at_camp = FALSE
    /\ changed

\* C9 as claimed: an update of type flag_rest in which a flag name W is
\* present sets last_flag to W, has W in flags_discovered (appended once if
\* new, the list unchanged if not), sets current_boss to None and at_camp to
\* false, and returns true.
C9_FlagRestAnyName ==
    Applied /\ update.update_type = FLAG_REST /\ update.flag_name # None
    => FlagRestEffect(Val(update.flag_name))

\* C9, amended: the same for every flag name W that is not the empty string.
C9_FlagRestNonEmptyName ==
    Applied /\ update.update_type = FLAG_REST /\ update.flag_name # None
            /\ Val(update.flag_name) # ""
    => FlagRestEffect(Val(update.flag_name))

C9_Witness ==
    /\ Applied
    /\ update.update_type = FLAG_REST
    /\ update.flag_name = Some("Flying Waters")
    /\ prev.flags_discovered = <<"Spring Meadows">>
    /\ prev.last_flag = Some("Spring Meadows")
    /\ prev.at_camp = TRUE
    /\ prev.current_boss # None
    /\ FlagRestEffect("Flying Waters")

\* C10: an update of type inventory makes inventory exactly its
\* inventory_items when that list is present (empty included) and pictos
\* exactly its pictos when that list is present, leaves each unchanged when
\* its list is absent, and returns true iff at least one list is present.
C10_WholesaleInventory ==
    Applied /\ update.update_type = INVENTORY =>
        /\ gs.inventory = IF update.inventory_items # None
                          THEN Val(update.inventory_items)
                          ELSE prev.inventory
        /\ gs.pictos = IF update.pictos # None
                       THEN Val(update.pictos)
                       ELSE prev.pictos
        /\ changed <=> (update.inventory_items # None \/ update.pictos # None)

C10_Witness ==
    /\ Applied
    /\ update.update_type = INVENTORY
    /\ prev.inventory = <<InventoryItem("Chroma Catalyst", 2)>>
    /\ prev.pictos = <<Picto("Dodger", Some("Maelle"), FALSE)>>
    /\ update.inventory_items = Some(<<InventoryItem("Healing Tint", 1)>>)
    /\ update.pictos = None
    /\ gs.inventory = <<InventoryItem("Healing Tint", 1)>>
    /\ gs.pictos = prev.pictos
    /\ changed

\* The number of occurrences of x in list.
Count(x, list) == Cardinality({i \in DOMAIN list : list[i] = x})

\* apply_update has just returned for the second of two calls with the
\* same update; prev is the GameState between the two calls.
Reapplied == pc = "reapplied"

\* C11 as claimed: when the same flag_discovered update with flag name W is
\* applied twice in a row, flags_discovered after the second call is the
\* list after the first call, and W occurs in it exactly once.
C11_IdempotentDiscoveryAnyName ==
    Reapplied /\ EventApplied(FLAG_DISCOVERED) /\ update.flag_name # None
    => /\ gs.flags_discovered = prev.flags_discovered
       /\ Count(Val(update.flag_name), gs.flags_discovered) = 1

\* C11, amended: the list after the second call is the list after the first
\* call for every flag name W, and W occurs in it exactly once when W is
\* not the empty string.
C11_IdempotentDiscovery ==
    Reapplied /\ EventApplied(FLAG_DISCOVERED) /\ update.flag_name # None
    => /\ gs.flags_discovered = prev.flags_discovered
       /\ Val(update.flag_name) # ""
            => Count(Val(update.flag_name), gs.flags_discovered) = 1

C11_Witness ==
    /\ Reapplied
    /\ update.update_type = GAME_EVENT
    /\ update.game_event = Some(FLAG_DISCOVERED)
    /\ update.flag_name = Some("Flying Waters")
    /\ prev.flags_discovered = <<"Spring Meadows", "Flying Waters">>
    /\ gs.flags_discovered = <<"Spring Meadows", "Flying Waters">>
    /\ prev.last_flag = Some("Spring Meadows")
    /\ changed

\* The names of the records of a character_stats list.
Names(list) == {list[i].name : i \in DOMAIN list}

\* The record a character_stats list gives for name m (its last one, should
\* the list name m more than once).
RecordFor(m, list) ==
    list[CHOOSE i \in DOMAIN list :
            /\ list[i].name = m
            /\ \A j \in DOMAIN list : j > i => list[j].name # m]

\* C12: after an update of type stats with character_stats for the members
\* M, the table entry of each member of M is the update's record for that
\* member as a whole, the entry of every other member is unchanged, and no
\* key is removed.
C12_StatUpsertIsolation ==
    Applied /\ update.update_type = STATS /\ update.character_stats # None
    => LET list == Val(update.character_stats)
       IN  /\ DOMAIN gs.character_stats =
                  (DOMAIN prev.character_stats) \cup Names(list)
           /\ \A m \in Names(list) :
                  gs.character_stats[m] = RecordFor(m, list)
           /\ \A k \in (DOMAIN prev.character_stats) \ Names(list) :
                  gs.character_stats[k] = prev.character_stats[k]

C12_Witness ==
    /\ Applied
    /\ update.update_type = STATS
    /\ update.character_stats = Some(<<CharacterStats("Gustave", Some(10), None)>>)
    /\ DOMAIN prev.character_stats = {"Gustave", "Maelle"}
    /\ prev.character_stats["Gustave"] = CharacterStats("Gustave", Some(50), Some(5))
    /\ prev.character_stats["Maelle"] = CharacterStats("Maelle", Some(80), None)
    /\ DOMAIN gs.character_stats = {"Gustave", "Maelle"}
    /\ gs.character_stats["Gustave"] = CharacterStats("Gustave", Some(10), None)
    /\ gs.character_stats["Maelle"] = CharacterStats("Maelle", Some(80), None)

\* C13 as claimed: one call with an update of type multiple carrying a
\* new location L other than the current one and a flag_discovered event
\* with flag name W leaves player_location = L and W in flags_discovered,
\* and returns true.
C13_CompositeFanOutAnyName ==
    Applied /\ update.update_type = MULTIPLE
            /\ update.new_location # None
            /\ Val(update.new_location) # prev.player_location
            /\ update.game_event = Some(FLAG_DISCOVERED)
            /\ update.flag_name # None
    => /\ gs.player_location = Val(update.new_location)
       /\ InList(Val(update.flag_name), gs.flags_discovered)
       /\ changed

\* C13, amended: the same for every L and W that are not the empty string.
C13_CompositeFanOut ==
    Applied /\ update.update_type = MULTIPLE
            /\ update.new_location # None
            /\ Val(update.new_location) # ""
            /\ Val(update.new_location) # prev.player_location
            /\ update.game_event = Some(FLAG_DISCOVERED)
            /\ update.flag_name # None
            /\ Val(update.flag_name) # ""
    => /\ gs.player_location = Val(update.new_location)
       /\ InList(Val(update.flag_name), gs.flags_discovered)
       /\ changed

C13_Witness ==
    /\ Applied
    /\ update.update_type = MULTIPLE
    /\ update.new_location = Some("Lumiere")
    /\ update.game_event = Some(FLAG_DISCOVERED)
    /\ update.flag_name = Some("Flying Waters")
    /\ prev.player_location = "Unknown"
    /\ prev.flags_discovered = <<"Spring Meadows">>
    /\ gs.player_location = "Lumiere"
    /\ gs.flags_discovered = <<"Spring Meadows", "Flying Waters">>
    /\ changed

\* C14 as claimed: an update of type location or multiple carrying any
\* new_location other than None that differs from player_location sets
\* player_location to it and returns true.
C14_LocationOverwriteAnyValue ==
    Applied /\ update.update_type \in {LOCATION, MULTIPLE}
            /\ update.new_location # None
            /\ Val(update.new_location) # prev.player_location
    => gs.player_location = Val(update.new_location) /\ changed

\* C14, amended: the same for every new_location that is neither None nor
\* the empty string.
C14_LocationOverwrite ==
    Applied /\ update.update_type \in {LOCATION, MULTIPLE}
            /\ update.new_location # None
            /\ Val(update.new_location) # ""
            /\ Val(update.new_location) # prev.player_location
    => gs.player_location = Val(update.new_location) /\ changed

C14_Witness ==
    /\ Applied
    /\ update.update_type = LOCATION
    /\ update.new_location = Some("Unknown")
    /\ prev.player_location = "Lumiere"
    /\ gs.player_location = "Unknown"
    /\ changed

\* C15: an update of type location whose new_location equals
\* player_location, or is None, returns false and leaves the whole
\* GameState unchanged.
C15_IdenticalLocationNoChange ==
    Applied /\ update.update_type = LOCATION
            /\ (update.new_location = None
                \/ Val(update.new_location) = prev.player_location)
    => ~changed /\ gs = prev

C15_Witness ==
    /\ Applied
    /\ update.update_type = LOCATION
    /\ update.new_location = Some("Lumiere")
    /\ update.inventory_items # None
    /\ prev.player_location = "Lumiere"
    /\ ~changed
    /\ gs = prev

\* C16: an update of type boss_encounter with a boss D present leaves
\* current_boss equal to D in name, hp_percentage and is_axon, and returns
\* true, also when D equals the boss tracked before.
C16_EncounterOverwrite ==
    Applied /\ update.update_type = BOSS_ENCOUNTER /\ update.boss # None
    => /\ gs.current_boss # None
       /\ Val(gs.current_boss).name = Val(update.boss).name
       /\ Val(gs.current_boss).hp_percentage = Val(update.boss).hp_percentage
       /\ Val(gs.current_boss).is_axon = Val(update.boss).is_axon
       /\ changed

C16_Witness ==
    /\ Applied
    /\ update.update_type = BOSS_ENCOUNTER
    /\ update.boss = Some(BossState("Goblu", 100, FALSE))
    /\ prev.current_boss = Some(BossState("Goblu", 50, TRUE))
    /\ gs.current_boss = Some(BossState("Goblu", 100, FALSE))
    /\ changed

\* What C17 says of an applied party_stats, given whether its roster counts
\* as provided.
AggregateEffect(provided) ==
    LET ps == Val(update.party_stats)
    IN  /\ gs.active_party = IF provided
                             THEN Val(ps.active_characters)
                             ELSE prev.active_party
        /\ gs.gradient_gauge = IF ps.gradient_gauge # None
                               THEN Val(ps.gradient_gauge)
                               ELSE prev.gradient_gauge

\* C17 as claimed: an update of type stats or multiple whose party_stats is
\* present overwrites active_party with its active_characters whenever that
\* is not None (an empty list included) and keeps it when None, and
\* overwrites gradient_gauge with its gradient_gauge whenever that is not
\* None (0 included) and keeps it when None.
C17_AggregateOverwriteAnyRoster ==
    Applied /\ Triggers(update, STATS) /\ update.party_stats # None
    => AggregateEffect(Val(update.party_stats).active_characters # None)

\* C17, amended: active_party is overwritten whenever active_characters is a
\* non-empty list and kept when it is None or empty; gradient_gauge as
\* claimed.
C17_AggregateOverwrite ==
    Applied /\ Triggers(update, STATS) /\ update.party_stats # None
    => AggregateEffect(TruthyList(Val(update.party_stats).active_characters))

C17_Witness ==
    /\ Applied
    /\ update.update_type = STATS
    /\ update.party_stats = Some(PartyStats(Some(<<"Maelle", "Verso">>), Some(0)))
    /\ prev.active_party = <<"Gustave", "Maelle", "Lune">>
    /\ prev.gradient_gauge = 50
    /\ gs.active_party = <<"Maelle", "Verso">>
    /\ gs.gradient_gauge = 0

\* The GameState fields an update of a single category may change.
Allowed(type) ==
    CASE type = LOCATION       -> {"player_location"}
      [] type = INVENTORY      -> {"inventory", "pictos"}
      [] type = BOSS_ENCOUNTER -> {"current_boss"}
      [] type = GAME_EVENT     -> {"party_defeats", "current_boss", "bosses_defeated",
                                   "axons_defeated", "flags_discovered"}
      [] type = FLAG_REST      -> {"last_flag", "flags_discovered", "current_boss",
                                   "at_camp"}
      [] type = CAMP_REST      -> {"at_camp", "current_boss"}
      [] type = STATS          -> {"character_stats", "active_party", "gradient_gauge"}

\* C18: for an update whose type is a single category, only that category's
\* fields of the GameState can change, whatever payload of other categories
\* the update carries.
C18_KindGating ==
    Applied /\ update.update_type \in UpdateType \ {NOOP, MULTIPLE}
    => \A f \in (DOMAIN GameState) \ Allowed(update.update_type) : gs[f] = prev[f]

C18_Witness ==
    /\ Applied
    /\ update.update_type = BOSS_ENCOUNTER
    /\ update.game_event = Some(PARTY_DEFEATED)
    /\ update.boss = Some(BossState("Lampmaster", 50, FALSE))
    /\ prev.current_boss = Some(BossState("Goblu", 50, TRUE))
    /\ gs = [prev EXCEPT !.current_boss = update.boss]
    /\ changed

\* C19: from every reachable GameState and for every StateUpdate, a call of
\* apply_update is possible, raises nothing and returns a boolean.
C19_Totality ==
    /\ pc = "idle" =>
          /\ ENABLED Apply
          /\ \A u \in StateUpdates(scenario) :
                 /\ ~apply_raises(gs, u)
                 /\ apply_update(gs, u).changed \in BOOLEAN
    /\ Applied => changed \in BOOLEAN

C19_Witness ==
    /\ Applied
    /\ update.update_type = MULTIPLE
    /\ update.game_event = Some(BOSS_DEFEATED)
    /\ update.boss = None
    /\ prev.current_boss = None
    /\ prev.bosses_defeated = <<"Goblu">>
    /\ gs = prev
    /\ changed

\* C20: when one caller runs load, apply, save-only-if-changed, one update
\* at a time, then after every cycle a load from the store yields the
\* GameState of a caller that applies the same updates in order to the
\* default GameState and saves after every one of them; a call that returns
\* false finds the store already in that state.
C20_PersistOnlyIfChanged ==
    /\ pc = "idle" => Loaded(stored) = ref
    /\ Applied /\ ~changed => Loaded(stored) = ref

C20_Witness ==
    /\ Applied
    /\ update.update_type = MULTIPLE
    /\ update.flag_name = Some("")
    /\ update.new_location = Some("Lumiere")
    /\ ~changed
    /\ stored # None
    /\ Val(stored) = ref
    /\ ref.player_location = "Lumiere"
    /\ ref.flags_discovered = <<"Spring Meadows">>

\* The value of an overwrite field after the updates seen: the carried
\* value, or the default of GameState() if none was carried.
LastOr(carried, default) == IF carried = None THEN default ELSE Val(carried)

\* C21: with the calls on one GameState made one after the other, after any
\* sequence of updates each of player_location, inventory, pictos, last_flag,
\* active_party and gradient_gauge is the value carried by the most recent
\* update of the sequence whose assignment to that field ran, and the
\* default of GameState() if there was no such update.
C21_LastObservationWins ==
    /\ gs.player_location = LastOr(last.player_location, GameState.player_location)
    /\ gs.inventory = LastOr(last.inventory, GameState.inventory)
    /\ gs.pictos = LastOr(last.pictos, GameState.pictos)
    /\ gs.last_flag = last.last_flag
    /\ gs.active_party = LastOr(last.active_party, GameState.active_party)
    /\ gs.gradient_gauge = LastOr(last.gradient_gauge, GameState.gradient_gauge)

C21_Witness ==
    /\ Applied
    /\ update.update_type = INVENTORY
    /\ update.inventory_items = None
    /\ update.pictos = Some(<<>>)
    /\ update.new_location = Some("Lumiere")
    /\ prev.inventory = <<InventoryItem("Healing Tint", 1)>>
    /\ prev.pictos = <<Picto("Dodger", Some("Maelle"), FALSE)>>
    /\ prev.player_location = "Unknown"
    /\ gs.inventory = <<InventoryItem("Healing Tint", 1)>>
    /\ gs.pictos = <<>>
    /\ gs.player_location = "Unknown"

\* No writer is between its load and its save.
Quiescent == \A w \in Workers : race.pc[w] = "idle"

\* Every applied update is in the store: the stored party_defeats counts
\* every party_defeated update applied, and every flag name a call appended
\* is in the stored flags_discovered.
NothingLost ==
    /\ Loaded(stored).party_defeats = race.wipes
    /\ race.inserted \subseteq Elements(Loaded(stored).flags_discovered)

\* C22: nothing in the cycle keeps two writers apart, and an applied update
\* is lost from the store only in a run in which two cycles overlapped (one
\* writer loaded before the other saved): whenever no writer is in flight
\* and no cycles have overlapped, nothing is lost.  The witness is the lost
\* update the overlap allows: two party_defeated updates applied, the
\* stored counter at 1.
C22_SerializationRequired ==
    /\ \A w \in Workers : race.pc[w] = "idle" => ENABLED WorkerLoad(w)
    /\ Quiescent /\ ~NothingLost => race.overlapped

C22_Witness ==
    /\ Quiescent
    /\ race.overlapped
    /\ race.wipes = 2
    /\ stored # None
    /\ Val(stored).party_defeats = 1

\* format_context has just returned.
Formatted == pc = "formatted"

\* C23: format_context, called on a GameState directly or by
\* get_context_for_query on the GameState it loaded, leaves every field of
\* that GameState as it was, for every GameState and every list of knowledge
\* results.
C23_ReadOnlyContext ==
    Formatted =>
        /\ ctx.after = ctx.given
        /\ gs = prev

C23_Witness ==
    /\ Formatted
    /\ ctx.given # None
    /\ Val(ctx.given) = Loaded(stored)
    /\ Val(ctx.given).bosses_defeated = <<"Goblu", "Lampmaster">>
    /\ Val(ctx.given).current_boss # None
    /\ Len(ctx.knowledge) = 2
    /\ ctx.context # None
    /\ Len(Val(ctx.context)) = 2

\* C24: for a Coach built with max_history = N, N >= 0, the history holds at
\* most N messages after any sequence of get_response and clear_history
\* calls.
C24_HistoryBound ==
    coach.built => Len(coach.history) <= coach.max_history

\* search has just returned.
Searched == cache.built /\ cache.call.op = "search"

\* The backend returned a dict that is not empty.
GotResult == cache.call.result # None /\ DOMAIN Val(cache.call.result) # {}

\* The dict the backend returned.
GivenResult == Val(cache.call.result)

\* C25 as claimed: search returns a response only when the cache is enabled
\* and the backend returned a result with a score of at least
\* similarity_threshold; a lower or missing score, or no result, gives None.
C25_HitNeedsScore ==
    Searched /\ cache.call.found # None =>
        /\ cache.enabled
        /\ GotResult
        /\ "score" \in DOMAIN GivenResult
        /\ GivenResult["score"] # None
        /\ Val(GivenResult["score"]) >= cache.similarity_threshold

\* C25, amended: a result without a score counts as scored 0.  search
\* returns a response only when the cache is enabled and the backend
\* returned a result whose score, 0 if it has none, is at least
\* similarity_threshold; otherwise it returns None.
C25_HitThreshold ==
    Searched /\ cache.call.found # None =>
        /\ cache.enabled
        /\ GotResult
        /\ Get(GivenResult, "score", Some(0)) # None
        /\ Val(Get(GivenResult, "score", Some(0))) >= cache.similarity_threshold

C25_Witness ==
    /\ Searched
    /\ cache.enabled
    /\ cache.similarity_threshold = 90
    /\ GotResult
    /\ GivenResult = Result(Some(90), "Parry the combo.")
    /\ cache.call.found = Some("Parry the combo.")

\* The categories in the order of their blocks in apply_update.
SingleKinds ==
    <<LOCATION, INVENTORY, BOSS_ENCOUNTER, GAME_EVENT, FLAG_REST, CAMP_REST, STATS>>

\* One call per category from the i-th on, each with o's payload and the
\* update type set to that category: the GameState after the calls, and the
\* OR of the flags they returned with the flag so far.
RECURSIVE ApplyEach(_, _, _)
ApplyEach(st, o, i) ==
    IF i > Len(SingleKinds)
    THEN st
    ELSE LET r == apply_update(st.self, [o EXCEPT !.update_type = SingleKinds[i]])
         IN  ApplyEach([self |-> r.self, changed |-> st.changed \/ r.changed],
                       o, i + 1)

\* C26: a call with an update of type multiple leaves the GameState that
\* seven calls leave, made in the order location, inventory, boss_encounter,
\* game_event, flag_rest, camp_rest, stats with the same payload and the
\* type set to that one category, and it returns the OR of their flags.
C26_CompositeIsOrderedSingles ==
    Applied /\ update.update_type = MULTIPLE =>
        LET singles == ApplyEach([self |-> prev, changed |-> FALSE], update, 1)
        IN  /\ gs = singles.self
            /\ changed = singles.changed

C26_Witness ==
    /\ Applied
    /\ update.update_type = MULTIPLE
    /\ update.boss = Some(BossState("Goblu", 50, TRUE))
    /\ update.game_event = Some(BOSS_DEFEATED)
    /\ prev.current_boss = Some(BossState("Lampmaster", 50, FALSE))
    /\ gs.bosses_defeated = <<"Goblu">>
    /\ gs.axons_defeated = <<"Goblu">>
    /\ gs.current_boss = None
    /\ changed

\* C27: a call with an update of type game_event and event flag_discovered
\* whose flag_name is already in flags_discovered, or is None, returns true
\* and changes no field of the GameState.
C27_ReinsertionReportsChange ==
    /\ Applied
    /\ update.update_type = GAME_EVENT
    /\ update.game_event = Some(FLAG_DISCOVERED)
    /\ \/ update.flag_name = None
       \/ /\ update.flag_name # None
          /\ InList(Val(update.flag_name), prev.flags_discovered)
    => changed /\ gs = prev

C27_Witness ==
    /\ Applied
    /\ update.update_type = GAME_EVENT
    /\ update.game_event = Some(FLAG_DISCOVERED)
    /\ update.flag_name = Some("Spring Meadows")
    /\ update.new_location = Some("Lumiere")
    /\ prev.flags_discovered = <<"Flying Waters", "Spring Meadows">>
    /\ prev.player_location = "Unknown"
    /\ changed
    /\ gs = prev

\* C28: a call with an update of type game_event and event boss_defeated on
\* a GameState whose current_boss is None leaves bosses_defeated and
\* axons_defeated as they were (the name is never taken from the update's
\* boss), leaves current_boss None, and returns true.
C28_DefeatWithoutEncounter ==
    /\ Applied
    /\ update.update_type = GAME_EVENT
    /\ update.game_event = Some(BOSS_DEFEATED)
    /\ prev.current_boss = None
    => /\ gs.bosses_defeated = prev.bosses_defeated
       /\ gs.axons_defeated = prev.axons_defeated
       /\ gs.current_boss = None
       /\ changed

C28_Witness ==
    /\ Applied
    /\ update.update_type = GAME_EVENT
    /\ update.game_event = Some(BOSS_DEFEATED)
    /\ update.boss = Some(BossState("Goblu", 50, TRUE))
    /\ prev.current_boss = None
    /\ prev.bosses_defeated = <<"Lampmaster">>
    /\ gs = prev
    /\ changed

\* C29: a call with an update of type stats returns true exactly when
\* character_stats or party_stats is not None, also when the list is empty
\* or the party stats carry neither a roster nor a gauge and no field
\* changes; it returns false when both are None.
C29_StatsChangeFlag ==
    Applied /\ update.update_type = STATS =>
        (changed <=> (update.character_stats # None \/ update.party_stats # None))

C29_Witness ==
    /\ Applied
    /\ update.update_type = STATS
    /\ update.character_stats = Some(<<>>)
    /\ update.party_stats = Some(PartyStats(None, None))
    /\ prev.gradient_gauge = 50
    /\ gs = prev
    /\ changed

\* The flag_discovered payload with a flag name and without at_camp.
SharedFlagName ==
    /\ Applied
    /\ update.game_event = Some(FLAG_DISCOVERED)
    /\ update.flag_name # None
    /\ update.at_camp = None

\* What the payload does under type multiple (the flag rest block reads the
\* same flag_name) and under type game_event (flags_discovered only).
SharedFlagEffect ==
    LET W == Val(update.flag_name)
    IN  /\ update.update_type = MULTIPLE =>
              /\ InList(W, gs.flags_discovered)
              /\ gs.last_flag = Some(W)
              /\ ~gs.at_camp
              /\ gs.current_boss = None
        /\ update.update_type = GAME_EVENT =>
              gs = [prev EXCEPT !.flags_discovered =
                       IF InList(W, @) THEN @ ELSE Append(@, W)]

\* C30 as claimed: an update of type multiple carrying the flag_discovered
\* event with any flag name W and no at_camp also sets last_flag to W, sets
\* at_camp to false and clears current_boss, while the same payload under
\* type game_event changes flags_discovered only.
C30_SharedFlagNameAnyName == SharedFlagName => SharedFlagEffect

\* C30, amended: the same for every W that is not the empty string.
C30_SharedFlagName ==
    SharedFlagName /\ Val(update.flag_name) # "" => SharedFlagEffect

C30_Witness ==
    /\ SharedFlagName
    /\ update.update_type = MULTIPLE
    /\ update.flag_name = Some("Flying Waters")
    /\ update.boss # None
    /\ prev.at_camp
    /\ prev.last_flag = Some("Spring Meadows")
    /\ gs.last_flag = Some("Flying Waters")
    /\ gs.flags_discovered = <<"Spring Meadows", "Flying Waters">>
    /\ ~gs.at_camp
    /\ gs.current_boss = None

\* C31: in every GameState reachable from GameState() by apply_update
\* calls, every name in axons_defeated is also in bosses_defeated.
C31_AxonsAreBosses ==
    Elements(gs.axons_defeated) \subseteq Elements(gs.bosses_defeated)

C31_Witness ==
    /\ Applied
    /\ EventApplied(BOSS_DEFEATED)
    /\ prev.current_boss = Some(BossState("Goblu", 50, TRUE))
    /\ prev.bosses_defeated = <<"Lampmaster">>
    /\ gs.bosses_defeated = <<"Lampmaster", "Goblu">>
    /\ gs.axons_defeated = <<"Goblu">>

\* C32: in every GameState reachable from GameState() by apply_update
\* calls, a last_flag that is not None is in flags_discovered.
C32_LastFlagDiscovered ==
    gs.last_flag # None => InList(Val(gs.last_flag), gs.flags_discovered)

C32_Witness ==
    /\ Applied
    /\ update.update_type = FLAG_REST
    /\ update.flag_name = Some("Flying Waters")
    /\ prev.last_flag = Some("Spring Meadows")
    /\ prev.flags_discovered = <<"Flying Waters", "Spring Meadows">>
    /\ gs.last_flag = Some("Flying Waters")
    /\ gs.flags_discovered = prev.flags_discovered

\* C33: in every GameState reachable from GameState(), each name in
\* bosses_defeated was the name of the boss of an applied update, each name
\* in axons_defeated that of a boss flagged is_axon, and each name in
\* flags_discovered the flag_name of an applied update.
C33_Provenance ==
    /\ Elements(gs.bosses_defeated) \subseteq provenance.bosses
    /\ Elements(gs.axons_defeated) \subseteq provenance.axons
    /\ Elements(gs.flags_discovered) \subseteq provenance.flags

C33_Witness ==
    /\ Applied
    /\ update.update_type = GAME_EVENT
    /\ update.game_event = Some(BOSS_DEFEATED)
    /\ update.boss = None
    /\ gs.bosses_defeated = <<"Goblu", "Lampmaster">>
    /\ gs.axons_defeated = <<>>
    /\ provenance.bosses = {"Goblu", "Lampmaster"}
    /\ provenance.axons = {"Goblu"}

\* C34: applying an update a second time right after the first leaves the
\* GameState as the first call left it, unless the update's party_defeated
\* branch runs; then the two GameStates differ in party_defeats only.
C34_Idempotence ==
    Reapplied =>
        IF EventApplied(PARTY_DEFEATED)
        THEN /\ gs = [prev EXCEPT !.party_defeats = gs.party_defeats]
             /\ gs.party_defeats = prev.party_defeats + 1
        ELSE gs = prev

C34_Witness ==
    /\ Reapplied
    /\ update.update_type = MULTIPLE
    /\ update.boss = Some(BossState("Goblu", 50, TRUE))
    /\ update.game_event = Some(BOSS_DEFEATED)
    /\ gs.bosses_defeated = <<"Lampmaster", "Goblu">>
    /\ gs.axons_defeated = <<"Goblu">>
    /\ gs.current_boss = None
    /\ gs = prev
    /\ changed

\* search or store has just returned or raised.
CacheCalled == cache.built /\ cache.call.op \in {"search", "store"}

\* C35: a cache with the server URL, the cache id or the API key missing,
\* or whose client could not be constructed, is not enabled; a cache that
\* is not enabled answers search with None and store with False without
\* calling the backend; when the backend call raises, search returns None
\* and store returns False and no exception leaves the call; store returns
\* True only after a backend set that did not raise.
C35_CacheFailureContained ==
    /\ cache.built
       /\ (\/ ~TruthyStr(cache.server_url)
           \/ ~TruthyStr(cache.cache_id)
           \/ ~TruthyStr(cache.api_key)
           \/ cache.construct_failed)
       => ~cache.enabled
    /\ CacheCalled =>
          /\ ~cache.enabled =>
                /\ cache.call.found = None
                /\ ~cache.call.ok
                /\ ~cache.call.backend_called
          /\ cache.call.backend_raised =>
                /\ cache.call.found = None
                /\ ~cache.call.ok
          /\ ~cache.call.raised
          /\ cache.call.ok =>
                /\ cache.call.op = "store"
                /\ cache.call.backend_called
                /\ ~cache.call.backend_raised

C35_Witness ==
    /\ CacheCalled
    /\ cache.call.op = "store"
    /\ cache.enabled
    /\ cache.call.backend_called
    /\ cache.call.backend_raised
    /\ ~cache.call.ok
    /\ ~cache.call.raised

\* get_response has just returned or raised.
Responded == coach.built /\ coach.call.made

Last(list) == list[Len(list)]

\* The request raised: the user message is the last of the history, with
\* no assistant message after it.
FailedRequestKept ==
    Responded /\ coach.call.raised =>
        /\ coach.call.messages # None
        /\ Len(coach.call.after) > 0
        /\ Last(coach.call.after).role = "user"
        /\ Last(coach.call.after).content.text = coach.call.user_message

\* The request after a failed one succeeded: the messages sent end with the
\* user message of the failed request and the new user message.
TwoUserMessagesSent ==
    LET sent == Val(coach.call.messages)
    IN  /\ Len(sent) >= 3
        /\ sent[Len(sent) - 1] = Last(coach.call.before)
        /\ sent[Len(sent) - 1].role = "user"
        /\ Last(sent).role = "user"
        /\ Last(sent).content.text = coach.call.user_message

\* A good request right after a failed one.
AnsweredAfterFailure ==
    /\ Responded
    /\ coach.call.after_failure
    /\ coach.call.messages # None
    /\ ~coach.call.raised

\* A blank message: the apology, the history as before, nothing sent.
BlankRefused ==
    Responded /\ Strip(coach.call.user_message) = "" =>
        /\ coach.call.returned = Some(APOLOGY)
        /\ coach.call.after = coach.call.before
        /\ coach.call.messages = None
        /\ ~coach.call.raised

\* C36 as claimed: when the model call raises, the user message stays in the
\* history with no assistant reply, and the next successful call sends two
\* consecutive user messages, whatever max_history is; a blank message
\* returns the apology with the history unchanged and no model call.
C36_FailedRequestAnyBound ==
    /\ FailedRequestKept
    /\ AnsweredAfterFailure => TwoUserMessagesSent
    /\ BlankRefused

\* C36, amended: the two consecutive user messages are sent when
\* max_history is at least 2.
C36_FailedRequest ==
    /\ FailedRequestKept
    /\ AnsweredAfterFailure /\ coach.max_history >= 2 => TwoUserMessagesSent
    /\ BlankRefused

C36_Witness ==
    /\ AnsweredAfterFailure
    /\ coach.max_history = 2
    /\ Len(coach.call.before) = 2
    /\ Last(coach.call.before).content.text = "How do I beat Goblu?"
    /\ coach.call.user_message = "And now?"
    /\ TwoUserMessagesSent
    /\ Len(coach.call.after) = 3

(***************************************************************************)
(* transform_zone (src/redis_setup/transform_zone.py): a zone file to flat *)
(* game knowledge entries, appended to data/game_knowledge.json.  A text   *)
(* is the tuple of its characters.                                         *)
(***************************************************************************)
Goblu == <<"G", "o", "b", "l", "u">>
GobluLoud == <<"G", "O", "B", "L", "U", "!">>
Noco == <<"N", "o", "c", "o">>
Waters == <<"W", "a", "t", "e", "r", "s">>
FlyingWaters == <<"F", "l", "y", "i", "n", "g", " ">> \o Waters
GestralMerchant ==
    <<"G", "e", "s", "t", "r", "a", "l", " ",
      "M", "e", "r", "c", "h", "a", "n", "t">>

UpperCase ==
    <<"A", "B", "C", "D", "E", "F", "G", "H", "I", "J", "K", "L", "M",
      "N", "O", "P", "Q", "R", "S", "T", "U", "V", "W", "X", "Y", "Z">>

LowerCase ==
    <<"a", "b", "c", "d", "e", "f", "g", "h", "i", "j", "k", "l", "m",
      "n", "o", "p", "q", "r", "s", "t", "u", "v", "w", "x", "y", "z">>

Digits == {"0", "1", "2", "3", "4", "5", "6", "7", "8", "9"}

\* str.lower(), one character
LowerChar(c) ==
    IF \E i \in DOMAIN UpperCase : UpperCase[i] = c
    THEN LowerCase[CHOOSE i \in DOMAIN UpperCase : UpperCase[i] = c]
    ELSE c

\* text.lower()
Lower(text) == [i \in DOMAIN text |-> LowerChar(text[i])]

\* The characters re.sub(r"[^a-z0-9\s-]", "", text) keeps.
Kept(c) ==
    \/ \E i \in DOMAIN LowerCase : LowerCase[i] = c
    \/ c \in Digits
    \/ c \in {" ", "-"}

\* re.sub(run + "+", "-", text): every maximal run of the characters of run
\* becomes one hyphen.
RECURSIVE Hyphenated(_, _)
Hyphenated(text, run) ==
    IF text = <<>>
    THEN <<>>
    ELSE IF Head(text) \in run
         THEN IF Len(text) > 1 /\ text[2] \in run
              THEN Hyphenated(Tail(text), run)
              ELSE <<"-">> \o Hyphenated(Tail(text), run)
         ELSE <<Head(text)>> \o Hyphenated(Tail(text), run)

\* text.strip("-")
RECURSIVE StripHyphens(_)
StripHyphens(text) ==
    IF text = <<>>
    THEN text
    ELSE IF Head(text) = "-"
         THEN StripHyphens(Tail(text))
         ELSE IF text[Len(text)] = "-"
              THEN StripHyphens(SubSeq(text, 1, Len(text) - 1))
              ELSE text

\* part in text
Contains(text, part) ==
    \E i \in 0..(Len(text) - Len(part)) :
        SubSeq(text, i + 1, i + Len(part)) = part

\* slugify(text), no suffix
Slug(text) ==
    StripHyphens(
        Hyphenated(Hyphenated(SelectSeq(Lower(text), Kept), {" ", "_"}),
                   {"-"}))

\* slugify(text, suffix): the suffix slug is appended unless it is empty or
\* already part of the slug.
slugify(text, suffix) ==
    LET slug == Slug(text)
        suffix_slug == Slug(suffix)
    IN  IF suffix # <<>> /\ suffix_slug # <<>> /\ ~Contains(slug, suffix_slug)
        THEN slug \o <<"-">> \o suffix_slug
        ELSE slug

\* The fields of a game knowledge entry that the transformation keys on.
Entry(id, name, type, area) ==
    [id |-> id, name |-> name, type |-> type, area |-> area]

extract_area_entry(zone) ==
    Entry(slugify(zone.zone_name, <<>>), zone.zone_name, "Area",
          zone.continent)

extract_boss_entries(zone) ==
    [i \in DOMAIN zone.bosses |->
        Entry(slugify(zone.bosses[i].name, zone.zone_name),
              zone.bosses[i].name, "Boss", zone.zone_name)]

extract_enemy_entries(zone) ==
    [i \in DOMAIN zone.enemies |->
        Entry(slugify(zone.enemies[i].name, zone.zone_name),
              zone.enemies[i].name, "Enemy", zone.zone_name)]

extract_npc_entries(zone) ==
    [i \in DOMAIN zone.npcs |->
        LET npc == zone.npcs[i]
            entry_type ==
                IF Contains(Lower(npc.type),
                            <<"m", "e", "r", "c", "h", "a", "n", "t">>)
                THEN "Merchant"
                ELSE "NPC"
        IN  Entry(slugify(npc.name, zone.zone_name), npc.name, entry_type,
                  zone.zone_name)]

\* isinstance(item, dict)
IsDict(item) == item.dict

\* The entries of one list of collectibles; items that are not objects are
\* passed over.
Collected(items, type, zone_name) ==
    LET dicts == SelectSeq(items, IsDict)
    IN  [i \in DOMAIN dicts |->
            Entry(slugify(dicts[i].name, zone_name), dicts[i].name, type,
                  zone_name)]

extract_collectible_entries(zone) ==
    Collected(zone.pictos, "Picto", zone.zone_name)
    \o Collected(zone.journals, "Journal", zone.zone_name)

transform_zone(zone) ==
    <<extract_area_entry(zone)>>
    \o extract_boss_entries(zone)
    \o extract_enemy_entries(zone)
    \o extract_npc_entries(zone)
    \o extract_collectible_entries(zone)

\* Most objects listed in a zone file.
MaxZoneItems == 2

\* An object of one of the lists of a zone file; a collectible may be a
\* bare string instead of an object.
Item(list, dict, name, type) ==
    [list |-> list, dict |-> dict, name |-> name, type |-> type]

ZoneItems ==
    {Item("bosses", TRUE, name, <<>>) : name \in {Goblu, FlyingWaters}}
    \cup {Item("enemies", TRUE, name, <<>>) : name \in {Goblu, GobluLoud}}
    \cup {Item("npcs", TRUE, Noco, GestralMerchant),
          Item("npcs", TRUE, Goblu, <<"N", "P", "C">>)}
    \cup {Item(list, TRUE, Goblu, <<>>) : list \in {"pictos", "journals"}}
    \cup {Item(list, FALSE, <<>>, <<>>) : list \in {"pictos", "journals"}}

\* zone.get(list, [])
Listed(items, list) ==
    LET Member(item) == item.list = list
    IN  SelectSeq(items, Member)

\* The zone file with this name and these objects.
Zone(zone_name, items) ==
    [zone_name |-> zone_name,
     continent |-> <<"S", "e", "a">>,
     bosses    |-> Listed(items, "bosses"),
     enemies   |-> Listed(items, "enemies"),
     npcs      |-> Listed(items, "npcs"),
     pictos    |-> Listed(items, "pictos"),
     journals  |-> Listed(items, "journals")]

Zones ==
    {Zone(zone_name, items) :
        zone_name \in {FlyingWaters, Waters},
        items \in UNION {[1..n -> ZoneItems] : n \in 0..MaxZoneItems}}

\* data/game_knowledge.json as transform_zone may find it: empty, with the
\* entries of an earlier zone, or edited by hand into a repeated id.
KnowledgeFiles ==
    LET area == Entry(Slug(FlyingWaters), FlyingWaters, "Area",
                      <<"S", "e", "a">>)
        boss == Entry(slugify(Goblu, FlyingWaters), Goblu, "Boss",
                      FlyingWaters)
        twin == Entry(slugify(Goblu, FlyingWaters), GobluLoud, "Enemy",
                      FlyingWaters)
    IN  {<<>>, <<boss>>, <<area, boss>>, <<boss, twin>>}

\* main: the knowledge file after the run and what the run did.  With
\* --append the entries whose id the file already has are skipped and the
\* others are written after the existing ones; otherwise the entries go to
\* the output and the knowledge file is left alone.
main(knowledge_file, zone_data, append) ==
    LET entries == transform_zone(zone_data)
        existing == IF knowledge_file.exists
                    THEN knowledge_file.entries
                    ELSE <<>>
        existing_ids == {existing[i].id : i \in DOMAIN existing}
        New(entry) == entry.id \notin existing_ids
        new_entries == SelectSeq(entries, New)
        skipped == Len(entries) - Len(new_entries)
        combined == existing \o new_entries
    IN  IF append
        THEN [knowledge_file EXCEPT
                 !.exists = TRUE,
                 !.entries = combined,
                 !.run = [mode      |-> "append",
                          zone_name |-> zone_data.zone_name,
                          existing  |-> existing,
                          entries   |-> entries,
                          skipped   |-> skipped,
                          written   |-> combined]]
        ELSE [knowledge_file EXCEPT
                 !.run = [mode      |-> "output",
                          zone_name |-> zone_data.zone_name,
                          existing  |-> <<>>,
                          entries   |-> entries,
                          skipped   |-> 0,
                          written   |-> entries]]

\* transform_zone has not run yet.
NotRun == knowledge.run.mode = "none"

\* The knowledge file is there before transform_zone runs.
WriteKnowledge ==
    /\ ~knowledge.exists
    /\ NotRun
    /\ \E entries \in KnowledgeFiles :
           knowledge' = [knowledge EXCEPT !.exists = TRUE,
                                          !.entries = entries]
    /\ UNCHANGED <<session, race, ctx, voice, provenance>>

\* transform_zone.py zone.json --append
TransformAppend ==
    /\ NotRun
    /\ \E zone_data \in Zones :
           knowledge' = main(knowledge, zone_data, TRUE)
    /\ UNCHANGED <<session, race, ctx, voice, provenance>>

\* transform_zone.py zone.json, with or without --output
TransformOutput ==
    /\ NotRun
    /\ \E zone_data \in Zones :
           knowledge' = main(knowledge, zone_data, FALSE)
    /\ UNCHANGED <<session, race, ctx, voice, provenance>>

NextTransform == WriteKnowledge \/ TransformAppend \/ TransformOutput

SpecTransform == Init /\ [][NextTransform]_vars

\* The ids of a list of entries.
Ids(entries) == {entries[i].id : i \in DOMAIN entries}

\* No two entries of the list have the same id.
DistinctIds(entries) ==
    \A i, j \in DOMAIN entries : entries[i].id = entries[j].id => i = j

\* The last run appended to a knowledge file whose ids were pairwise
\* distinct.
Appended ==
    /\ knowledge.run.mode = "append"
    /\ DistinctIds(knowledge.run.existing)

\* The existing entries are a prefix of the file written, unchanged and in
\* order.
ExistingKept ==
    LET existing == knowledge.run.existing
        written == knowledge.run.written
    IN  /\ Len(written) >= Len(existing)
        /\ SubSeq(written, 1, Len(existing)) = existing

\* No entry added has an id the file already had.
NoKnownIdAdded ==
    LET existing == knowledge.run.existing
        written == knowledge.run.written
    IN  \A i \in (Len(existing) + 1)..Len(written) :
            written[i].id \notin Ids(existing)

\* C37: when transform_zone is run with --append on a knowledge file whose
\* entries have pairwise distinct ids, the file written keeps the existing
\* entries unchanged and in order as a prefix, adds no entry whose id was
\* already in the file, and holds no two entries with the same id.
C37_UniqueIdsAfterAppend ==
    Appended =>
        /\ ExistingKept
        /\ NoKnownIdAdded
        /\ DistinctIds(knowledge.run.written)

=============================================================================
